---- MODULE Spec2Model ----
(***************************************************************************)
(* DashRAG front end: the client side of the asynchronous document         *)
(* ingestion protocol.                                                     *)
(*   - dashragAPI.pollDocumentStatus (front-end/utils/dashrag-api.ts)      *)
(*   - the chat bridge, POST /api/chat (pages/api/chat.ts)                 *)
(*   - the chat page's progress-stream handlers (pages/chat.tsx)           *)
(* The DashRAG backend is the environment: its answers are drawn from the  *)
(* responses its API reference documents.                                  *)
(***************************************************************************)
EXTENDS Integers, Sequences, FiniteSets, TLC

VARIABLES
  \* ---- backend (environment) ----
  sessPresent,     \* the session still exists on the server
  serverDocs,      \* GET /documents: the session's ordered document list
  \* ---- one call of pollDocumentStatus ----
  maxAttempts,     \* the maxAttempts argument
  pollPc,          \* "loop" | "fetching" | "sleeping" | "done"
  attempts,        \* let attempts
  pollFetches,     \* getDocuments requests issued by this call
  pollInFlight,    \* getDocuments requests issued and not yet answered
  updates,         \* the onStatusUpdate calls made, in order
  pollResult,      \* "none" | "Returned" | "DocumentNotFound" | "Timeout" | "FetchFailed"
  pollLastResp,    \* the response the last settled getDocuments call received
  pollReturned,    \* the document the call resolved with (NoDoc if none)
  \* ---- backend (environment): messages ----
  serverMessages,  \* GET /messages: the session's ordered message history
  \* ---- one request to the chat bridge, POST /api/chat ----
  reqMethod,       \* req.method
  reqSessionId,    \* req.body.sessionId ("" when missing)
  reqContent,      \* req.body.content ("" when missing)
  brPc,            \* "idle" | "start" | "posting" | "loop" | "sleeping" | "fetching" | "done"
  brPostResp,      \* the backend's answer to the submission, once produced
  messageId,       \* const messageId = postData.message_id
  attempt,         \* let attempt
  brPosts,         \* POST /messages requests the bridge issued
  brFetches,       \* GET /messages requests the bridge issued
  brLastResp,      \* the answer the last settled GET /messages received
  idFound,         \* some history the bridge fetched held a message with id messageId
  resCount,        \* responses written to res
  resStatus,       \* res.status(...) (0: none yet)
  resBody,         \* res.json(...): the message, or the error text
  \* ---- the chat page (ChatPage) ----
  sessionId,       \* useState sessionId
  statusMessages,  \* useState statusMessages
  documents,       \* useState documents
  uploadingFile,   \* useState uploadingFile
  ings,            \* the ingestions started on the page: each call's closure
                   \* (kind, name, sessionId, doc), its EventSource (state, events
                   \* in transit, events discarded after close) and how it ended
  nIngs,           \* ingestions started so far
  loads,           \* loadDocuments requests sent and not yet settled (their sid)
  sendPc,          \* handleSend: "idle" | "returned" | "waiting" | "settled"
                   \* ("none": the bridge's request is not the page's)
  messages,        \* useState messages
  loading,         \* useState loading
  mounted,         \* the ChatPage component is mounted (the user has not navigated away)
  emitted,         \* events the backend has pushed on the page's streams
  \* ---- backend (environment): the document status model ----
  lastTransition,  \* the last transition(doc, newStatus) call and its outcome
  \* ---- backend (environment): the progress event stream of one document ----
  produced,        \* the events the pipeline has produced for the document, in order
  subs,            \* the subscribers of the document's stream
  \* ---- the chat page: handleReset ----
  resetsInFlight,  \* createSession requests of handleReset sent and not yet settled
  nResets,         \* handleReset calls so far
  \* ---- the index page (useSessionManager) ----
  sessions,        \* useState sessions (ids, in list order)
  folders,         \* useState folders, as saveFolders stores them
  nFolders,        \* folders created so far (the folder id counter)
  sessionsLoading, \* useState loading
  sessionsError,   \* useState error ("" for null)
  listPc,          \* the loadSessions request: "none" | "sent" | "served"
  listResp,        \* the answer to GET /sessions in transit
  showDeleteModal, \* useState showDeleteModal
  sessionToDelete, \* useState sessionToDelete (NoSession for null)
  deleting,        \* confirmDelete calls awaiting the server: the closure's
                   \* sessionToDelete and folders
  showNameModal,   \* useState showNameModal
  newSessionName,  \* useState newSessionName, as a sequence of characters
  creatingSession, \* useState creatingSession
  createPc,        \* handleCreateWithName: "none" | "sent" | "created" | "failed"
  sentTitle,       \* the title handleCreateWithName passed to createSession
  \* ---- the chat page: initSession ----
  initPc,          \* initSession: [pc: "start" | "getting" | "creating" | "done" | "failed", saved]
  \* ---- shared by the pages ----
  serverSessions,  \* the sessions that exist on the server
  storedSessionId  \* localStorage dashrag_session_id ("" when absent)

pollVars == <<maxAttempts, pollPc, attempts, pollFetches, pollInFlight,
              updates, pollResult, pollLastResp, pollReturned>>
backendVars == <<lastTransition, produced, subs>>
serverVars == <<sessPresent, serverDocs, serverMessages, emitted, backendVars>>
bridgeVars == <<reqMethod, reqSessionId, reqContent, brPc, brPostResp, messageId,
                attempt, brPosts, brFetches, brLastResp, idFound, resCount, resStatus,
                resBody>>
sendVars == <<sendPc, messages, loading>>
resetVars == <<resetsInFlight, nResets>>
pageVars == <<sessionId, statusMessages, documents, uploadingFile, ings, nIngs, loads, sendVars,
              mounted, resetVars, initPc>>
indexVars == <<sessions, folders, nFolders, sessionsLoading, sessionsError, listPc, listResp,
               showDeleteModal, sessionToDelete, deleting>>
storeVars == <<serverSessions, storedSessionId>>
createVars == <<showNameModal, newSessionName, creatingSession, createPc, sentTitle>>
managerVars == <<indexVars, storeVars, createVars>>
clientVars == <<pollVars, bridgeVars, pageVars, managerVars>>
vars == <<serverVars, pollVars, bridgeVars, pageVars, managerVars>>

----------------------------------------------------------------------------
\* Bounds of the model.

\* Largest maxAttempts argument explored (the inserting band saturates at
\* attempt 20, so the bound lies above it).
MaxPollAttempts == 22

----------------------------------------------------------------------------
\* Data.

Min(a, b) == IF a < b THEN a ELSE b

\* type DocumentStatus
DocumentStatus == {"pending", "downloading", "inserting", "ready", "error"}
Terminal == {"ready", "error"}
NonTerminal == DocumentStatus \ Terminal

\* The document the poll is about and another document of the same session.
TargetDoc == "d1"
OtherDoc == "d2"
NoDoc == [id |-> "none", source_type |-> "none", status |-> "none"]
Doc(id, src, s) == [id |-> id, source_type |-> src, status |-> s]

\* HTTP answers to GET /documents?sid=...
\*   [kind |-> "ok", body |-> <document list>]   200
\*   [kind |-> "status", code |-> n]            a non-2xx answer
\*   [kind |-> "reject"]                        fetch itself rejects (network)
OkResponse(body) == [kind |-> "ok", code |-> 200, body |-> body]
StatusResponse(code) == [kind |-> "status", code |-> code, body |-> <<>>]
RejectResponse == [kind |-> "reject", code |-> 0, body |-> <<>>]
NoResponse == [kind |-> "none", code |-> 0, body |-> <<>>]

\* What the backend may answer to GET /documents in the current state: the
\* list, 404 once the session is gone, or a transient failure.
DocumentsResponses ==
  (IF sessPresent THEN {OkResponse(serverDocs)} ELSE {StatusResponse(404)})
    \cup {StatusResponse(500), RejectResponse}

----------------------------------------------------------------------------
\* dashragAPI.getDocuments: throws unless the response is ok, else the list.
getDocuments_onlyReady(resp) ==
  IF resp.kind = "ok"
    THEN [threw |-> FALSE, docs |-> SelectSeq(resp.body, LAMBDA d : d.status = "ready")]
    ELSE [threw |-> TRUE, docs |-> <<>>]

getDocuments(resp) ==
  IF resp.kind = "ok"
    THEN [threw |-> FALSE, docs |-> resp.body]
    ELSE [threw |-> TRUE, docs |-> <<>>]

\* documents.find(d => d.id === documentId): the first match, or undefined.
find(docs, documentId) ==
  LET hits == {i \in 1..Len(docs) : docs[i].id = documentId}
  IN IF hits = {} THEN NoDoc
     ELSE docs[CHOOSE i \in hits : \A j \in hits : i <= j]

\* "Calculate simulated progress based on status"
estimateProgress(status, a) ==
  CASE status = "pending" -> 10
    [] status = "downloading" -> 30
    [] status = "inserting" -> 50 + (a * 2)
    [] status = "ready" -> 100
    [] status = "error" -> 0
    [] OTHER -> 0

\* Math.min(progress, 90), the value of the per-attempt onStatusUpdate
reportedProgress_unclamped(progress) == progress

reportedProgress(progress) == Min(progress, 90)

Update(status, progress) == [status |-> status, progress |-> progress]

----------------------------------------------------------------------------
\* pollDocumentStatus, one action per step between two awaits.

\* while (attempts < maxAttempts) { await this.getDocuments(sessionId) ...
loopCond_offByOne == attempts <= maxAttempts

loopCond == attempts < maxAttempts

\* The loop condition holds: await this.getDocuments(sessionId).
pollFetch_noAwait ==
  /\ pollPc = "loop"
  /\ loopCond
  /\ pollPc' = "sleeping"
  /\ pollFetches' = pollFetches + 1
  /\ pollInFlight' = pollInFlight + 1
  /\ UNCHANGED <<maxAttempts, attempts, updates, pollResult, pollLastResp, pollReturned>>
  /\ UNCHANGED <<serverVars, bridgeVars, pageVars, managerVars>>

pollFetch ==
  /\ pollPc = "loop"
  /\ loopCond
  /\ pollPc' = "fetching"
  /\ pollFetches' = pollFetches + 1
  /\ pollInFlight' = pollInFlight + 1
  /\ UNCHANGED <<maxAttempts, attempts, updates, pollResult, pollLastResp, pollReturned>>
  /\ UNCHANGED <<serverVars, bridgeVars, pageVars, managerVars>>

\* The loop condition fails: throw new Error("Document processing timeout")
pollTimeout ==
  /\ pollPc = "loop"
  /\ ~loopCond
  /\ pollPc' = "done"
  /\ pollResult' = "Timeout"
  /\ UNCHANGED <<maxAttempts, attempts, pollFetches, pollInFlight, updates, pollLastResp, pollReturned>>
  /\ UNCHANGED <<serverVars, bridgeVars, pageVars, managerVars>>

\* What the body of the loop does with a found document: the per-attempt
\* onStatusUpdate and, for ready or error, the final one and the return.
pollBody_noFinal(doc) ==
  LET first == Update(doc.status, reportedProgress(estimateProgress(doc.status, attempts)))
  IN IF doc.status = "ready" \/ doc.status = "error"
       THEN /\ updates' = updates \o <<first>>
            /\ pollResult' = "Returned"
            /\ pollReturned' = doc
            /\ pollPc' = "done"
       ELSE /\ updates' = Append(updates, first)
            /\ pollPc' = "sleeping"
            /\ UNCHANGED <<pollResult, pollReturned>>

pollBody(doc) ==
  LET first == Update(doc.status, reportedProgress(estimateProgress(doc.status, attempts)))
  IN IF doc.status = "ready" \/ doc.status = "error"
       THEN /\ updates' = updates \o <<first, Update(doc.status, 100)>>
            /\ pollResult' = "Returned"
            /\ pollReturned' = doc
            /\ pollPc' = "done"
       ELSE /\ updates' = Append(updates, first)
            /\ pollPc' = "sleeping"
            /\ UNCHANGED <<pollResult, pollReturned>>

\* The getDocuments call settles; the rest of the loop body runs up to the
\* next await (the 2 s setTimeout), the return or a throw.
pollResume ==
  /\ pollPc = "fetching"
  /\ \E resp \in DocumentsResponses :
       LET r == getDocuments(resp)
           doc == find(r.docs, TargetDoc)
       IN /\ pollInFlight' = pollInFlight - 1
          /\ pollLastResp' = resp
          /\ IF r.threw
               THEN \* getDocuments throws; no try/catch in the loop
                    /\ pollPc' = "done"
                    /\ pollResult' = "FetchFailed"
                    /\ UNCHANGED <<updates, pollReturned>>
               ELSE IF doc = NoDoc
                 THEN \* throw new Error("Document not found")
                      /\ pollPc' = "done"
                      /\ pollResult' = "DocumentNotFound"
                      /\ UNCHANGED <<updates, pollReturned>>
                 ELSE pollBody(doc)
  /\ UNCHANGED <<maxAttempts, attempts, pollFetches>>
  /\ UNCHANGED <<serverVars, bridgeVars, pageVars, managerVars>>

\* The 2 s timer fires: attempts++ and back to the loop condition.
pollWake ==
  /\ pollPc = "sleeping"
  /\ attempts' = attempts + 1
  /\ pollPc' = "loop"
  /\ UNCHANGED <<maxAttempts, pollFetches, pollInFlight, updates, pollResult, pollLastResp, pollReturned>>
  /\ UNCHANGED <<serverVars, bridgeVars, pageVars, managerVars>>

----------------------------------------------------------------------------
\* The backend's side of a document (environment).

\* Documents one session holds.
MaxDocs == 2

NewDocId(n) == IF n = 1 THEN TargetDoc ELSE IF n = 2 THEN OtherDoc ELSE "d3"

SetStatus(docs, id, s) ==
  [i \in 1..Len(docs) |-> IF docs[i].id = id THEN [docs[i] EXCEPT !.status = s] ELSE docs[i]]

Remove(docs, id) == SelectSeq(docs, LAMBDA d : d.id # id)

\* The ingestion pipeline moves the document along
\* pending -> downloading -> inserting -> ready | error.
NextStatuses(src, s) ==
  CASE s = "pending" -> IF src = "arxiv" THEN {"downloading"} ELSE {"inserting"}
    [] s = "downloading" -> {"inserting", "error"}
    [] s = "inserting" -> {"ready", "error"}
    [] OTHER -> {}

pipelineStep ==
  /\ sessPresent
  /\ \E i \in 1..Len(serverDocs) :
       \E s \in NextStatuses(serverDocs[i].source_type, serverDocs[i].status) :
         serverDocs' = SetStatus(serverDocs, serverDocs[i].id, s)
  /\ UNCHANGED <<sessPresent, serverMessages, emitted, backendVars>>
  /\ UNCHANGED clientVars

\* The document is deleted while the session lives on.
deleteDocument ==
  /\ sessPresent
  /\ find(serverDocs, TargetDoc) # NoDoc
  /\ serverDocs' = Remove(serverDocs, TargetDoc)
  /\ UNCHANGED <<sessPresent, serverMessages, emitted, backendVars>>
  /\ UNCHANGED clientVars

\* DELETE /sessions?sid=...: the session and all its data are gone.
deleteSession ==
  /\ sessPresent
  /\ sessPresent' = FALSE
  /\ serverDocs' = <<>>
  /\ serverMessages' = <<>>
  /\ UNCHANGED <<emitted, backendVars, clientVars>>

\* The Document Status Model: transition(doc, newStatus) applies newStatus
\* when it follows the document's status on the path above and fails with
\* InvalidTransition otherwise, leaving the document as it is.
NoTransition == [id |-> "none", from |-> "none", to |-> "none", result |-> "none"]

transition_applyAlways(doc, newStatus) ==
  [ok |-> newStatus \in NextStatuses(doc.source_type, doc.status), status |-> newStatus]

transition(doc, newStatus) ==
  IF newStatus \in NextStatuses(doc.source_type, doc.status)
    THEN [ok |-> TRUE, status |-> newStatus]
    ELSE [ok |-> FALSE, status |-> doc.status]

\* The pipeline (or any collaborator) calls transition on a document.
transitionCall ==
  /\ sessPresent
  /\ \E i \in 1..Len(serverDocs), newStatus \in DocumentStatus :
       LET doc == serverDocs[i]
           r == transition(doc, newStatus)
       IN /\ serverDocs' = SetStatus(serverDocs, doc.id, r.status)
          /\ lastTransition' = [id |-> doc.id, from |-> doc.status, to |-> newStatus,
                                result |-> IF r.ok THEN "ok" ELSE "InvalidTransition"]
  /\ UNCHANGED <<sessPresent, serverMessages, emitted, produced, subs>>
  /\ UNCHANGED clientVars

\* POST /documents/upload, POST /documents/add-arxiv: the document is created
\* in status pending.
createDocument ==
  /\ sessPresent
  /\ Len(serverDocs) < MaxDocs
  /\ \E src \in {"upload", "arxiv"} :
       serverDocs' = Append(serverDocs, Doc(NewDocId(Len(serverDocs) + 1), src, "pending"))
  /\ UNCHANGED <<sessPresent, serverMessages, emitted, backendVars>>
  /\ UNCHANGED clientVars


----------------------------------------------------------------------------
\* The backend's message history (environment).

UserMsg(id) == [id |-> id, role |-> "user", content |-> id]
\* The assistant message produced for the query of user message id.
ReplyMsg(id) == [id |-> "re:" \o id, role |-> "assistant", content |-> "answer:" \o id]
NoMsg == [id |-> "none", role |-> "none", content |-> "none"]

\* The user message this bridge request creates, one created by another
\* request to the same session, and an earlier exchange.
OwnMsg == "m1"
OtherMsg == "m2"
OldMsg == "m0"
\* const messageId when the submission response has no message_id field.
Undefined == "undefined"

Ids(msgs) == {msgs[i].id : i \in 1..Len(msgs)}

\* Answers to POST /messages as the handler reads them.
\*   accepted: 2xx with a JSON body (message_id, or "undefined" if absent);
\*   badjson: 2xx with a body that response.json() cannot parse.
Accepted(id) == [kind |-> "ok", code |-> 202, message_id |-> id, body |-> <<>>]
BadJson == [kind |-> "badjson", code |-> 200, message_id |-> Undefined, body |-> <<>>]
Refused(code) == [kind |-> "status", code |-> code, message_id |-> Undefined, body |-> <<>>]
Rejected == [kind |-> "reject", code |-> 0, message_id |-> Undefined, body |-> <<>>]
NoAnswer == [kind |-> "none", code |-> 0, message_id |-> Undefined, body |-> <<>>]
History(msgs) == [kind |-> "ok", code |-> 200, message_id |-> Undefined, body |-> msgs]

\* The backend handles the bridge's POST /messages: it stores the user
\* message and answers with its id (processing the query later), or stores
\* and answers the whole exchange at once (the documented non-streaming
\* form, whose body has no message_id), or refuses, or the request fails.
backendPost ==
  /\ brPc = "posting"
  /\ brPostResp = NoAnswer
  /\ \/ /\ sessPresent
        /\ serverMessages' = Append(serverMessages, UserMsg(OwnMsg))
        /\ brPostResp' \in {Accepted(OwnMsg), BadJson}
     \/ /\ sessPresent
        /\ serverMessages' = serverMessages \o <<UserMsg(OwnMsg), ReplyMsg(OwnMsg)>>
        /\ brPostResp' = Accepted(Undefined)
     \/ /\ brPostResp' \in {Refused(IF sessPresent THEN 400 ELSE 404), Refused(500), Rejected}
        /\ UNCHANGED serverMessages
  /\ UNCHANGED <<sessPresent, serverDocs, emitted, backendVars, pollVars, pageVars, managerVars>>
  /\ UNCHANGED <<idFound, reqMethod, reqSessionId, reqContent, brPc, messageId, attempt, brPosts,
                 brFetches, brLastResp, resCount, resStatus, resBody>>

\* The backend finishes a query: the assistant message is appended.
backendReply ==
  /\ sessPresent
  /\ \E id \in {OwnMsg, OtherMsg} :
       /\ id \in Ids(serverMessages)
       /\ ReplyMsg(id).id \notin Ids(serverMessages)
       /\ serverMessages' = Append(serverMessages, ReplyMsg(id))
  /\ UNCHANGED <<sessPresent, serverDocs, emitted, backendVars>>
  /\ UNCHANGED clientVars

\* Another request to the same session stores its user message.
otherRequest ==
  /\ sessPresent
  /\ OtherMsg \notin Ids(serverMessages)
  /\ serverMessages' = Append(serverMessages, UserMsg(OtherMsg))
  /\ UNCHANGED <<sessPresent, serverDocs, emitted, backendVars>>
  /\ UNCHANGED clientVars

\* What the backend may answer to GET /messages in the current state.
MessagesResponses ==
  (IF sessPresent THEN {History(serverMessages)} ELSE {Refused(404)})
    \cup {Refused(500), Rejected, BadJson}

----------------------------------------------------------------------------
\* The chat bridge: handler of POST /api/chat.

\* const maxAttempts = 60
BridgeMaxAttempts == 60

\* messages.findIndex((m) => m.id === messageId), 0-based, -1 if none
findIndex(msgs, id) ==
  LET hits == {i \in 1..Len(msgs) : msgs[i].id = id}
  IN IF hits = {} THEN -1
     ELSE (CHOOSE i \in hits : \A j \in hits : i <= j) - 1

\* "Find the assistant message that follows our user message": the message
\* to answer with, or NoMsg.
assistantAfter_noRoleCheck(msgs, id) ==
  LET userMsgIndex == findIndex(msgs, id)
  IN IF userMsgIndex >= 0 /\ userMsgIndex < Len(msgs) - 1
       THEN msgs[(userMsgIndex + 1) + 1]
       ELSE NoMsg

assistantAfter_anyLater(msgs, id) ==
  LET userMsgIndex == findIndex(msgs, id)
      later == {i \in 1..Len(msgs) : i > userMsgIndex + 1 /\ msgs[i].role = "assistant"}
  IN IF userMsgIndex >= 0 /\ later # {}
       THEN msgs[CHOOSE i \in later : \A j \in later : i <= j]
       ELSE NoMsg

assistantAfter(msgs, id) ==
  LET userMsgIndex == findIndex(msgs, id)
  IN IF userMsgIndex >= 0 /\ userMsgIndex < Len(msgs) - 1
       THEN LET assistantMsg == msgs[(userMsgIndex + 1) + 1]
            IN IF assistantMsg.role = "assistant" THEN assistantMsg ELSE NoMsg
       ELSE NoMsg

\* await postResponse.text() of a refusal: the backend's error body.
UpstreamText(code) ==
  CASE code = 400 -> "{detail: Add at least one ready document before querying}"
    [] code = 404 -> "{detail: Session not found}"
    [] OTHER -> ""

\* res.status(code).json(body), ending the handler
respond(code, body) ==
  /\ resStatus' = code
  /\ resBody' = body
  /\ resCount' = resCount + 1
  /\ brPc' = "done"

\* The request arrives: method and body checks, then the submission is sent.
handler_submitsFirst ==
  /\ brPc = "start"
  /\ brPosts' = brPosts + 1
  /\ IF reqMethod # "POST"
       THEN respond(405, "Method not allowed")
       ELSE IF reqSessionId = "" \/ reqContent = ""
         THEN respond(400, "Missing sessionId or content")
         ELSE /\ brPc' = "posting"
              /\ UNCHANGED <<resCount, resStatus, resBody>>
  /\ UNCHANGED <<idFound, reqMethod, reqSessionId, reqContent, brPostResp, messageId, attempt,
                 brFetches, brLastResp>>
  /\ UNCHANGED <<serverVars, pollVars, pageVars, managerVars>>

handler ==
  /\ brPc = "start"
  /\ IF reqMethod # "POST"
       THEN /\ respond(405, "Method not allowed")
            /\ UNCHANGED brPosts
       ELSE IF reqSessionId = "" \/ reqContent = ""
         THEN /\ respond(400, "Missing sessionId or content")
              /\ UNCHANGED brPosts
         ELSE /\ brPc' = "posting"
              /\ brPosts' = brPosts + 1
              /\ UNCHANGED <<resCount, resStatus, resBody>>
  /\ UNCHANGED <<idFound, reqMethod, reqSessionId, reqContent, brPostResp, messageId, attempt,
                 brFetches, brLastResp>>
  /\ UNCHANGED <<serverVars, pollVars, pageVars, managerVars>>

\* The submission settles: a refusal is passed on, a failure is caught (500),
\* otherwise messageId is read and the polling loop starts.
handlerPosted_pollsAnyway ==
  /\ brPc = "posting"
  /\ brPostResp # NoAnswer
  /\ IF brPostResp.kind = "reject" \/ brPostResp.kind = "badjson"
       THEN /\ respond(500, "Internal server error")
            /\ UNCHANGED <<messageId, attempt>>
       ELSE /\ messageId' = brPostResp.message_id
            /\ attempt' = 0
            /\ brPc' = "loop"
            /\ UNCHANGED <<resCount, resStatus, resBody>>
  /\ UNCHANGED <<idFound, reqMethod, reqSessionId, reqContent, brPostResp, brPosts, brFetches, brLastResp>>
  /\ UNCHANGED <<serverVars, pollVars, pageVars, managerVars>>

handlerPosted ==
  /\ brPc = "posting"
  /\ brPostResp # NoAnswer
  /\ IF brPostResp.kind = "status"
       THEN /\ respond(brPostResp.code, UpstreamText(brPostResp.code))
            /\ UNCHANGED <<messageId, attempt>>
       ELSE IF brPostResp.kind = "reject" \/ brPostResp.kind = "badjson"
         THEN /\ respond(500, "Internal server error")
              /\ UNCHANGED <<messageId, attempt>>
         ELSE /\ messageId' = brPostResp.message_id
              /\ attempt' = 0
              /\ brPc' = "loop"
              /\ UNCHANGED <<resCount, resStatus, resBody>>
  /\ UNCHANGED <<idFound, reqMethod, reqSessionId, reqContent, brPostResp, brPosts, brFetches, brLastResp>>
  /\ UNCHANGED <<serverVars, pollVars, pageVars, managerVars>>

\* for (...; attempt < maxAttempts; ...)
forCond == attempt < BridgeMaxAttempts

\* The loop condition holds: await the 1 s timer.
handlerSleep ==
  /\ brPc = "loop"
  /\ forCond
  /\ brPc' = "sleeping"
  /\ UNCHANGED <<idFound, reqMethod, reqSessionId, reqContent, brPostResp, messageId, attempt,
                 brPosts, brFetches, brLastResp, resCount, resStatus, resBody>>
  /\ UNCHANGED <<serverVars, pollVars, pageVars, managerVars>>

\* The loop is exhausted: 504 "Query timed out after 60 seconds".
handlerTimeout ==
  /\ brPc = "loop"
  /\ ~forCond
  /\ respond(504, "Query timed out after 60 seconds")
  /\ UNCHANGED <<idFound, reqMethod, reqSessionId, reqContent, brPostResp, messageId, attempt,
                 brPosts, brFetches, brLastResp>>
  /\ UNCHANGED <<serverVars, pollVars, pageVars, managerVars>>

\* The timer fires: GET /messages is sent.
handlerWake_resubmits ==
  /\ brPc = "sleeping"
  /\ brPc' = "fetching"
  /\ brFetches' = brFetches + 1
  /\ brPosts' = brPosts + 1
  /\ serverMessages' = IF sessPresent THEN Append(serverMessages, UserMsg(OwnMsg))
                                      ELSE serverMessages
  /\ UNCHANGED <<idFound, reqMethod, reqSessionId, reqContent, brPostResp, messageId, attempt,
                 brLastResp, resCount, resStatus, resBody>>
  /\ UNCHANGED <<sessPresent, serverDocs, emitted, backendVars, pollVars, pageVars, managerVars>>

handlerWake ==
  /\ brPc = "sleeping"
  /\ brPc' = "fetching"
  /\ brFetches' = brFetches + 1
  /\ UNCHANGED <<idFound, reqMethod, reqSessionId, reqContent, brPostResp, messageId, attempt,
                 brPosts, brLastResp, resCount, resStatus, resBody>>
  /\ UNCHANGED <<serverVars, pollVars, pageVars, managerVars>>

\* What one settled history fetch leads to: "retry" (continue, or no match),
\* "throw" (the catch block), or "found".
fetchOutcome(resp, id) ==
  IF resp.kind = "reject" THEN "throw"
  ELSE IF resp.kind = "status" THEN "retry"
  ELSE IF resp.kind = "badjson" THEN "throw"
  ELSE IF assistantAfter(resp.body, id) # NoMsg THEN "found"
  ELSE "retry"

\* GET /messages settles; the loop body runs to the next await or response.
handlerFetched ==
  /\ brPc = "fetching"
  /\ \E resp \in MessagesResponses :
       /\ brLastResp' = resp
       /\ idFound' = (idFound \/ (resp.kind = "ok" /\ findIndex(resp.body, messageId) >= 0))
       /\ CASE fetchOutcome(resp, messageId) = "throw" ->
                 /\ respond(500, "Internal server error")
                 /\ UNCHANGED attempt
            [] fetchOutcome(resp, messageId) = "found" ->
                 /\ respond(200, assistantAfter(resp.body, messageId))
                 /\ UNCHANGED attempt
            [] OTHER ->
                 /\ attempt' = attempt + 1
                 /\ brPc' = "loop"
                 /\ UNCHANGED <<resCount, resStatus, resBody>>
  /\ UNCHANGED <<reqMethod, reqSessionId, reqContent, brPostResp, messageId, brPosts, brFetches>>
  /\ UNCHANGED <<serverVars, pollVars, pageVars, managerVars>>

BridgeIdle ==
  /\ reqMethod = "POST"
  /\ reqSessionId = ""
  /\ reqContent = ""
  /\ brPc = "done"
  /\ brPostResp = NoAnswer
  /\ messageId = Undefined
  /\ attempt = 0
  /\ brPosts = 0
  /\ brFetches = 0
  /\ brLastResp = NoAnswer
  /\ idFound = FALSE
  /\ resCount = 0
  /\ resStatus = 0
  /\ resBody = "none"

----------------------------------------------------------------------------
\* The chat page: ingestion handlers and their progress streams.

\* Ingestions one page starts, events the backend pushes on the page's
\* streams, and events in transit on one stream.
MaxIngestions == 2
MaxEvents == 2
MaxQueue == 1

NoProgress == -1   \* progress: undefined
PageSession == "s1"

\* The file name or arXiv id of the n-th ingestion, and the document the
\* backend creates for it.
Name(kind, n) ==
  IF kind = "upload" THEN (IF n = 1 THEN "f1.pdf" ELSE "f2.pdf")
                     ELSE (IF n = 1 THEN "1706.03762" ELSE "2005.14165")
DocId(n) == IF n = 1 THEN "doc1" ELSE "doc2"
SourceType(kind) == IF kind = "upload" THEN "upload" ELSE "arxiv"

\* Events of /documents/progress-stream, as JSON.parse(event.data) yields
\* them; Malformed is data that does not parse.
ProgressEvent(phase, percent) ==
  [event |-> Undefined, processing_phase |-> phase, progress_percent |-> percent,
   status |-> Undefined, message |-> ""]
CompleteEvent(status) ==
  [event |-> "complete", processing_phase |-> Undefined, progress_percent |-> 0,
   status |-> status, message |-> ""]
ErrorEvent(message) ==
  [event |-> "error", processing_phase |-> Undefined, progress_percent |-> 0,
   status |-> Undefined, message |-> message]
Malformed ==
  [event |-> "malformed", processing_phase |-> Undefined, progress_percent |-> 0,
   status |-> Undefined, message |-> ""]

StreamEvents ==
  {ProgressEvent("text_chunking", 40), ProgressEvent(Undefined, 0),
   CompleteEvent("ready"), CompleteEvent("error"),
   ErrorEvent(""), ErrorEvent("graph failed"), Malformed}

\* getPhaseDescription
getPhaseDescription(phase) ==
  CASE phase = "pdf_extraction" -> "Extracting text from PDF"
    [] phase = "text_chunking" -> "Creating text chunks"
    [] phase = "entity_extraction" -> "Extracting entities and relationships"
    [] phase = "graph_clustering" -> "Building knowledge graph"
    [] phase = "community_reports" -> "Generating community reports"
    [] phase = "finalizing" -> "Finalizing document"
    [] OTHER -> "Processing..."

StatusMsg(status, message, progress) ==
  [type |-> "status", status |-> status, message |-> message, progress |-> progress]

\* addStatusMessage
addStatusMessage(prev, status, message, progress) ==
  Append(prev, StatusMsg(status, message, progress))

\* updateLastStatusMessage
updateLastStatusMessage(prev, status, message, progress) ==
  IF Len(prev) > 0
    THEN [prev EXCEPT ![Len(prev)] = StatusMsg(status, message, progress)]
    ELSE prev

\* The texts of the two handlers.
UploadingText(kind, name) ==
  IF kind = "upload" THEN "Uploading " \o name \o "..." ELSE "Adding arXiv paper " \o name \o "..."
ProcessingText(kind, name) ==
  IF kind = "upload" THEN "Processing " \o name \o "..." ELSE "Downloading arXiv:" \o name \o "..."
ReadyText(kind, name) ==
  IF kind = "upload" THEN name \o " is ready!" ELSE "arXiv:" \o name \o " is ready!"
FailedText(kind, name) ==
  IF kind = "upload" THEN "Failed to process " \o name ELSE "Failed to process arXiv:" \o name
PhaseText(kind, name, phase) ==
  IF kind = "upload" THEN getPhaseDescription(phase)
                     ELSE getPhaseDescription(phase) \o " (arXiv:" \o name \o ")"
RequestFailedText(kind) ==
  IF kind = "upload" THEN "Failed to upload document: 500" ELSE "Failed to add arXiv paper: 500"

\* A state setter of ChatPage: React drops the update once the component is
\* unmounted.
setState(cur, new) == IF mounted THEN new ELSE cur

NoIngestion ==
  [kind |-> "none", name |-> "", sid |-> "", doc |-> "", pc |-> "idle",
   es |-> "none", queue |-> <<>>, discarded |-> 0, end |-> "none"]

\* handleFileUpload / handleAddArxivPaper up to the first await: the session
\* check (and the .pdf check), setUploadingFile(true), the "uploading" status
\* message, and the upload or add-arxiv request is sent. The upload input
\* and the Add buttons are disabled while uploadingFile.
startIngestion(kind) ==
  /\ mounted
  /\ sessionId # ""
  /\ ~uploadingFile
  /\ nIngs < MaxIngestions
  /\ nIngs' = nIngs + 1
  /\ uploadingFile' = TRUE
  /\ statusMessages' =
       addStatusMessage(statusMessages, "uploading", UploadingText(kind, Name(kind, nIngs + 1)), 0)
  /\ ings' = [ings EXCEPT ![nIngs + 1] =
                [NoIngestion EXCEPT !.kind = kind, !.name = Name(kind, nIngs + 1),
                                    !.sid = sessionId, !.pc = "requesting"]]
  /\ UNCHANGED <<mounted, initPc, resetVars, sendVars, sessionId, documents, loads>>
  /\ UNCHANGED <<serverVars, pollVars, bridgeVars, managerVars>>

handleFileUpload == startIngestion("upload")

handleAddArxivPaper == startIngestion("arxiv")

\* The upload / add-arxiv request settles. Accepted: the backend has created
\* the document; the status message becomes "processing" (5) and the
\* EventSource is opened. Failed: the catch block.
ingestionAccepted ==
  \E n \in 1..MaxIngestions :
    /\ ings[n].pc = "requesting"
    /\ sessPresent
    /\ serverDocs' = Append(serverDocs, Doc(DocId(n), SourceType(ings[n].kind), "pending"))
    /\ statusMessages' =
         setState(statusMessages,
                  updateLastStatusMessage(statusMessages, "processing",
                                          ProcessingText(ings[n].kind, ings[n].name), 5))
    /\ ings' = [ings EXCEPT ![n].pc = "streaming", ![n].es = "open", ![n].doc = DocId(n)]
    /\ UNCHANGED <<mounted, initPc, resetVars, sendVars, sessionId, documents, uploadingFile, nIngs, loads>>
    /\ UNCHANGED <<sessPresent, serverMessages, emitted, backendVars, pollVars, bridgeVars, managerVars>>

ingestionRefused ==
  \E n \in 1..MaxIngestions :
    /\ ings[n].pc = "requesting"
    /\ statusMessages' =
         setState(statusMessages,
                  updateLastStatusMessage(statusMessages, "error",
                                          RequestFailedText(ings[n].kind), NoProgress))
    /\ uploadingFile' = setState(uploadingFile, FALSE)
    /\ ings' = [ings EXCEPT ![n].pc = "over", ![n].end = "request_failed"]
    /\ UNCHANGED <<mounted, initPc, resetVars, sendVars, sessionId, documents, nIngs, loads>>
    /\ UNCHANGED <<serverVars, pollVars, bridgeVars, managerVars>>

\* The backend pushes an event on the stream of ingestion n.
streamEmit ==
  \E n \in 1..MaxIngestions, ev \in StreamEvents :
    /\ ings[n].pc \in {"streaming", "over"}
    /\ ings[n].es # "none"
    /\ emitted < MaxEvents
    /\ Len(ings[n].queue) < MaxQueue
    /\ ings' = [ings EXCEPT ![n].queue = Append(@, ev)]
    /\ emitted' = emitted + 1
    /\ UNCHANGED <<mounted, initPc, resetVars, sendVars, sessionId, statusMessages, documents, uploadingFile, nIngs, loads>>
    /\ UNCHANGED <<sessPresent, serverDocs, serverMessages, backendVars, pollVars, bridgeVars, managerVars>>

\* eventSource.onmessage of ingestion n, given the event: the new status
\* messages, whether the stream is closed, whether loadDocuments is called,
\* and how the ingestion ended (if it did).
onmessage_errorKeepsListening(ing, ev, prev) ==
  IF ev.event = "malformed"
    THEN [sm |-> prev, close |-> FALSE, load |-> FALSE, end |-> "none"]
  ELSE IF ev.event = "complete"
    THEN [sm |-> IF ev.status = "ready"
                   THEN updateLastStatusMessage(prev, "ready", ReadyText(ing.kind, ing.name), 100)
                 ELSE IF ev.status = "error"
                   THEN updateLastStatusMessage(prev, "error", FailedText(ing.kind, ing.name), 0)
                 ELSE prev,
          close |-> TRUE, load |-> TRUE, end |-> "complete"]
  ELSE IF ev.event = "error"
    THEN [sm |-> updateLastStatusMessage(prev, "error",
                    IF ev.message # "" THEN ev.message ELSE "Processing failed", 0),
          close |-> FALSE, load |-> FALSE, end |-> "error"]
  ELSE [sm |-> updateLastStatusMessage(prev, "processing",
                  PhaseText(ing.kind, ing.name, ev.processing_phase),
                  IF ev.progress_percent # 0 THEN ev.progress_percent ELSE 10),
        close |-> FALSE, load |-> FALSE, end |-> "none"]

onmessage(ing, ev, prev) ==
  IF ev.event = "malformed"
    THEN [sm |-> prev, close |-> FALSE, load |-> FALSE, end |-> "none"]
  ELSE IF ev.event = "complete"
    THEN [sm |-> IF ev.status = "ready"
                   THEN updateLastStatusMessage(prev, "ready", ReadyText(ing.kind, ing.name), 100)
                 ELSE IF ev.status = "error"
                   THEN updateLastStatusMessage(prev, "error", FailedText(ing.kind, ing.name), 0)
                 ELSE prev,
          close |-> TRUE, load |-> TRUE, end |-> "complete"]
  ELSE IF ev.event = "error"
    THEN [sm |-> updateLastStatusMessage(prev, "error",
                    IF ev.message # "" THEN ev.message ELSE "Processing failed", 0),
          close |-> TRUE, load |-> FALSE, end |-> "error"]
  ELSE [sm |-> updateLastStatusMessage(prev, "processing",
                  PhaseText(ing.kind, ing.name, ev.processing_phase),
                  IF ev.progress_percent # 0 THEN ev.progress_percent ELSE 10),
        close |-> FALSE, load |-> FALSE, end |-> "none"]

\* The next event of stream n reaches the browser. An open EventSource
\* dispatches it to onmessage; a closed one discards it.
streamDeliver ==
  \E n \in 1..MaxIngestions :
    /\ ings[n].queue # <<>>
    /\ LET ev == Head(ings[n].queue)
           r == onmessage(ings[n], ev, statusMessages)
       IN IF ings[n].es = "open"
            THEN /\ statusMessages' = setState(statusMessages, r.sm)
                 /\ ings' = [ings EXCEPT ![n].queue = Tail(@),
                                         ![n].es = IF r.close THEN "closed" ELSE @,
                                         ![n].pc = IF r.close THEN "over" ELSE @,
                                         ![n].end = IF r.end # "none" THEN r.end ELSE @]
                 /\ loads' = IF r.load THEN Append(loads, ings[n].sid) ELSE loads
                 /\ uploadingFile' = IF r.end # "none" THEN setState(uploadingFile, FALSE)
                                                       ELSE uploadingFile
            ELSE /\ ings' = [ings EXCEPT ![n].queue = Tail(@), ![n].discarded = @ + 1]
                 /\ UNCHANGED <<statusMessages, loads, uploadingFile>>
    /\ UNCHANGED <<mounted, initPc, resetVars, sendVars, sessionId, documents, nIngs>>
    /\ UNCHANGED <<serverVars, pollVars, bridgeVars, managerVars>>

\* eventSource.onerror: the connection failed or was closed by the backend.
streamError_keepsUploading ==
  \E n \in 1..MaxIngestions :
    /\ ings[n].es = "open"
    /\ statusMessages' =
         setState(statusMessages,
                  updateLastStatusMessage(statusMessages, "error",
                                          "Connection error during processing", 0))
    /\ ings' = [ings EXCEPT ![n].es = "closed", ![n].pc = "over", ![n].end = "stream_error"]
    /\ UNCHANGED <<mounted, initPc, resetVars, sendVars, sessionId, documents, uploadingFile, nIngs, loads>>
    /\ UNCHANGED <<serverVars, pollVars, bridgeVars, managerVars>>

streamError ==
  \E n \in 1..MaxIngestions :
    /\ ings[n].es = "open"
    /\ statusMessages' =
         setState(statusMessages,
                  updateLastStatusMessage(statusMessages, "error",
                                          "Connection error during processing", 0))
    /\ ings' = [ings EXCEPT ![n].es = "closed", ![n].pc = "over", ![n].end = "stream_error"]
    /\ uploadingFile' = setState(uploadingFile, FALSE)
    /\ UNCHANGED <<mounted, initPc, resetVars, sendVars, sessionId, documents, nIngs, loads>>
    /\ UNCHANGED <<serverVars, pollVars, bridgeVars, managerVars>>

\* GET /documents?sid=...: the documents of that session. On the chat page
\* the document of ingestion n belongs to the session the ingestion was
\* started in.
SessionDocs(sid) ==
  SelectSeq(serverDocs,
            LAMBDA d : \E n \in 1..MaxIngestions : ings[n].doc = d.id /\ ings[n].sid = sid)

SessionDocumentsResponses(sid) ==
  (IF sessPresent THEN {OkResponse(SessionDocs(sid))} ELSE {StatusResponse(404)})
    \cup {StatusResponse(500), RejectResponse}

\* A loadDocuments(sid) request settles: setDocuments(docs), or the error is
\* logged and the list kept.
loadDocumentsSettled ==
  \E k \in 1..Len(loads) :
    /\ \E resp \in SessionDocumentsResponses(loads[k]) :
         documents' = IF getDocuments(resp).threw THEN documents
                      ELSE setState(documents, getDocuments(resp).docs)
    /\ loads' = SubSeq(loads, 1, k - 1) \o SubSeq(loads, k + 1, Len(loads))
    /\ UNCHANGED <<mounted, initPc, resetVars, sendVars, sessionId, statusMessages, uploadingFile, ings, nIngs>>
    /\ UNCHANGED <<serverVars, pollVars, bridgeVars, managerVars>>

----------------------------------------------------------------------------
\* The Progress Event Stream of one (session, document): subscribers, events
\* the pipeline produces for the document, and events in transit on one channel.
MaxSubs == 2
MaxProduced == 2

\* A subscriber: where the production stood when it attached (at) and when
\* it left (upto), the events on its channel (inbox) and those it has
\* received.
NoSub == [state |-> "none", at |-> 0, upto |-> 0, inbox |-> <<>>, received |-> <<>>]

IsTerminalEvent(ev) == ev.event \in {"complete", "error"}

TerminalProduced(evs) == \E i \in 1..Len(evs) : IsTerminalEvent(evs[i])

\* A subscriber attaches: it is sent the events produced from now on.
attach_replay(sub, evs) ==
  [sub EXCEPT !.state = "attached", !.at = Len(evs), !.inbox = evs]

attach(sub, evs) ==
  [sub EXCEPT !.state = "attached", !.at = Len(evs)]

\* An event is sent to every subscriber attached to the key.
fanOut_competing(ss, ev) ==
  [k \in DOMAIN ss |->
     IF ss[k].state = "attached" /\ \A j \in DOMAIN ss : j < k => ss[j].state # "attached"
       THEN [ss[k] EXCEPT !.inbox = Append(@, ev)]
       ELSE ss[k]]

fanOut(ss, ev) ==
  [k \in DOMAIN ss |->
     IF ss[k].state = "attached" THEN [ss[k] EXCEPT !.inbox = Append(@, ev)] ELSE ss[k]]

\* GET /documents/progress-stream?sid=...&doc_id=...: a client subscribes.
subscribe ==
  /\ sessPresent
  /\ \E k \in 1..MaxSubs :
       /\ subs[k].state = "none"
       /\ subs' = [subs EXCEPT ![k] = attach(subs[k], produced)]
  /\ UNCHANGED <<sessPresent, serverDocs, serverMessages, emitted, lastTransition, produced>>
  /\ UNCHANGED clientVars

\* The pipeline produces an event for the document; the terminal event is
\* the last one.
publish ==
  /\ sessPresent
  /\ Len(produced) < MaxProduced
  /\ ~TerminalProduced(produced)
  /\ \E ev \in StreamEvents :
       /\ produced' = Append(produced, ev)
       /\ subs' = fanOut(subs, ev)
  /\ UNCHANGED <<sessPresent, serverDocs, serverMessages, emitted, lastTransition>>
  /\ UNCHANGED clientVars

\* The next event on a subscriber's channel reaches it; the terminal event
\* ends the subscription.
receive ==
  /\ \E k \in 1..MaxSubs :
       /\ subs[k].state = "attached"
       /\ subs[k].inbox # <<>>
       /\ subs' = [subs EXCEPT ![k].inbox = Tail(@),
                               ![k].received = Append(@, Head(subs[k].inbox)),
                               ![k].state = IF IsTerminalEvent(Head(subs[k].inbox))
                                              THEN "ended" ELSE @,
                               ![k].upto = IF IsTerminalEvent(Head(subs[k].inbox))
                                             THEN Len(subs[k].received) + 1 + subs[k].at ELSE @]
  /\ UNCHANGED <<sessPresent, serverDocs, serverMessages, emitted, lastTransition, produced>>
  /\ UNCHANGED clientVars

\* A subscriber leaves early: what is still on its channel is dropped.
unsubscribe ==
  /\ \E k \in 1..MaxSubs :
       /\ subs[k].state = "attached"
       /\ subs' = [subs EXCEPT ![k].state = "left", ![k].inbox = <<>>,
                               ![k].upto = Len(produced)]
  /\ UNCHANGED <<sessPresent, serverDocs, serverMessages, emitted, lastTransition, produced>>
  /\ UNCHANGED clientVars

BackendIdle ==
  /\ lastTransition = NoTransition
  /\ produced = <<>>
  /\ subs = [k \in 1..MaxSubs |-> NoSub]

----------------------------------------------------------------------------
\* handleSend: the user message is shown, loading is set and POST /api/chat
\* is sent; without a session the handler alerts and returns.
ChatMsg(role, content) == [role |-> role, content |-> content]

handleSend ==
  /\ mounted
  /\ sendPc = "idle"
  /\ brPc = "idle"
  /\ IF sessionId = ""
       THEN /\ sendPc' = "returned"
            /\ UNCHANGED <<messages, loading, reqMethod, reqSessionId, reqContent, brPc>>
       ELSE \E content \in {"q", ""} :
              /\ messages' = Append(messages, ChatMsg("user", content))
              /\ loading' = TRUE
              /\ reqMethod' = "POST"
              /\ reqSessionId' = sessionId
              /\ reqContent' = content
              /\ brPc' = "start"
              /\ sendPc' = "waiting"
  /\ UNCHANGED <<brPostResp, messageId, attempt, brPosts, brFetches, brLastResp, idFound,
                 resCount, resStatus, resBody>>
  /\ UNCHANGED <<mounted, initPc, resetVars, sessionId, statusMessages, documents, uploadingFile, ings, nIngs, loads>>
  /\ UNCHANGED <<serverVars, pollVars, managerVars>>

\* The text handleSend shows for a settled request: the assistant's answer,
\* or "Error: ..." from the catch block.
sendResult(status, body) ==
  IF status = 200 THEN body.content
  ELSE "Error: " \o (IF body # "" THEN body ELSE "Failed to send message")

\* The request to /api/chat settles (or fails as a request): the answer or
\* the error is appended to the messages, and loading is cleared.
handleSendSettled ==
  /\ sendPc = "waiting"
  /\ brPc = "done"
  /\ \/ messages' = setState(messages,
                              Append(messages, ChatMsg("assistant", sendResult(resStatus, resBody))))
     \/ messages' = setState(messages,
                              Append(messages, ChatMsg("assistant", "Error: Failed to fetch")))
  /\ loading' = setState(loading, FALSE)
  /\ sendPc' = "settled"
  /\ UNCHANGED <<mounted, initPc, resetVars, sessionId, statusMessages, documents, uploadingFile, ings, nIngs, loads>>
  /\ UNCHANGED <<serverVars, pollVars, bridgeVars, managerVars>>

\* The user navigates away from the chat page: the component is unmounted.
\* ChatPage registers no cleanup (no effect returns one, and the event
\* sources are locals of the handlers), so nothing else happens.
navigateAway ==
  /\ mounted
  /\ mounted' = FALSE
  /\ UNCHANGED <<initPc, resetVars, sendVars, sessionId, statusMessages, documents, uploadingFile, ings, nIngs, loads>>
  /\ UNCHANGED <<serverVars, pollVars, bridgeVars, managerVars>>

\* handleReset: the Reset control of the chat page (it is not disabled while
\* an upload or a query is running). Up to the await: POST /sessions is sent.
MaxResets == 1

\* The id the backend gives to the k-th session created from the page.
NewSessionId(k) == IF k = 0 THEN "s0" ELSE IF k = 1 THEN "s2" ELSE IF k = 2 THEN "s3" ELSE "s4"

handleReset ==
  /\ mounted
  /\ sessionId # ""
  /\ nResets < MaxResets
  /\ nResets' = nResets + 1
  /\ resetsInFlight' = resetsInFlight + 1
  /\ UNCHANGED <<mounted, initPc, sendVars, sessionId, statusMessages, documents, uploadingFile, ings,
                 nIngs, loads>>
  /\ UNCHANGED <<serverVars, pollVars, bridgeVars, managerVars>>

\* The lists of the page after a reset, given the new session's id.
resetState(id) ==
  [sessionId |-> id, messages |-> <<>>,
   statusMessages |-> addStatusMessage(<<>>, "ready", "New chat session created!", NoProgress),
   documents |-> <<>>]

\* createSession settles. Created: the new session becomes the page's and
\* the stored one, the three lists are emptied and the "ready" status message
\* is added. Failed: the catch block alerts and nothing changes.
handleResetSettled ==
  /\ resetsInFlight > 0
  /\ resetsInFlight' = resetsInFlight - 1
  /\ \/ LET id == NewSessionId(nResets - resetsInFlight + 1)
            r == resetState(id)
        IN /\ serverSessions' = serverSessions \cup {id}
           /\ storedSessionId' = id
           /\ sessionId' = setState(sessionId, r.sessionId)
           /\ messages' = setState(messages, r.messages)
           /\ statusMessages' = setState(statusMessages, r.statusMessages)
           /\ documents' = setState(documents, r.documents)
     \/ UNCHANGED <<serverSessions, storedSessionId, sessionId, messages, statusMessages,
                    documents>>
  /\ UNCHANGED <<mounted, initPc, nResets, sendPc, loading, uploadingFile, ings, nIngs, loads>>
  /\ UNCHANGED <<serverVars, pollVars, bridgeVars, indexVars, createVars>>

\* ---------------------------------------------------------------------------
\* The chat page's initSession effect: restore the stored session or create
\* a new one.
\* ---------------------------------------------------------------------------

InitPc(pc, saved) == [pc |-> pc, saved |-> saved]
InitDone == InitPc("done", "")

\* GET /sessions/detail?sid=...: 200 for a session the server has, 404
\* otherwise; the request can also fail on the way (500, network).
SessionDetailResponses(sid) == (IF sid \in serverSessions THEN {200} ELSE {404}) \cup {500}

\* dashragAPI.getSession: throws on every response that is not ok.
getSession(status) == [threw |-> ~(status >= 200 /\ status <= 299)]

\* initSession up to its first await: getSession(savedSessionId) when an id
\* is stored, createSession("New Chat") otherwise.
initSession ==
  /\ initPc.pc = "start"
  /\ initPc' = IF storedSessionId # "" THEN InitPc("getting", storedSessionId)
               ELSE InitPc("creating", "")
  /\ UNCHANGED <<mounted, resetVars, sendVars, sessionId, statusMessages, documents, uploadingFile,
                 ings, nIngs, loads>>
  /\ UNCHANGED <<serverVars, pollVars, bridgeVars, managerVars>>

\* getSession settles. Ok: the saved id becomes the page's and its documents
\* are loaded. Thrown: the stored id is removed and a session is created.
initSessionGetSettled ==
  /\ initPc.pc = "getting"
  /\ \E status \in SessionDetailResponses(initPc.saved) :
       IF getSession(status).threw
         THEN /\ storedSessionId' = ""
              /\ initPc' = InitPc("creating", "")
              /\ UNCHANGED <<sessionId, loads>>
         ELSE /\ sessionId' = setState(sessionId, initPc.saved)
              /\ loads' = Append(loads, initPc.saved)
              /\ initPc' = InitDone
              /\ UNCHANGED storedSessionId
  /\ UNCHANGED serverSessions
  /\ UNCHANGED <<mounted, resetVars, sendVars, statusMessages, documents, uploadingFile, ings, nIngs>>
  /\ UNCHANGED <<serverVars, pollVars, bridgeVars, indexVars, createVars>>

\* createSession("New Chat") settles. Created: the new id becomes the page's
\* and the stored one. Failed: the outer catch adds the error status message.
initSessionCreateSettled ==
  /\ initPc.pc = "creating"
  /\ \/ LET id == NewSessionId(0)
        IN /\ serverSessions' = serverSessions \cup {id}
           /\ sessionId' = setState(sessionId, id)
           /\ storedSessionId' = id
           /\ initPc' = InitDone
           /\ UNCHANGED statusMessages
     \/ /\ statusMessages' =
             setState(statusMessages,
                      addStatusMessage(statusMessages, "error",
                                       "Failed to initialize session. Please refresh the page.",
                                       NoProgress))
        /\ initPc' = InitPc("failed", "")
        /\ UNCHANGED <<serverSessions, sessionId, storedSessionId>>
  /\ UNCHANGED <<mounted, resetVars, sendVars, documents, uploadingFile, ings, nIngs, loads>>
  /\ UNCHANGED <<serverVars, pollVars, bridgeVars, indexVars, createVars>>

ResetIdle ==
  /\ resetsInFlight = 0
  /\ nResets = 0
  /\ initPc = InitDone

SendIdle ==
  /\ sendPc = "none"
  /\ messages = <<>>
  /\ loading = FALSE

PageIdle ==
  /\ mounted = TRUE
  /\ sessionId = ""
  /\ statusMessages = <<>>
  /\ documents = <<>>
  /\ uploadingFile = FALSE
  /\ ings = [n \in 1..MaxIngestions |-> NoIngestion]
  /\ nIngs = 0
  /\ loads = <<>>
  /\ ResetIdle

----------------------------------------------------------------------------
\* The index page: useSessionManager (the version with folders and the
\* delete confirmation modal) against the backend's session list.

\* Sessions on the server at the start, confirmDelete calls awaiting the
\* server at once, and folders created on the page.
MaxSessions == 3
MaxDeleting == 1
MaxFolders == 2

NoSession == "none"   \* sessionToDelete: null

SessionIdOf(i) == IF i = 1 THEN "s1" ELSE IF i = 2 THEN "s2" ELSE IF i = 3 THEN "s3"
                  ELSE IF i = 4 THEN "s4" ELSE "s5"
SessionIds == {SessionIdOf(i) : i \in 1..MaxSessions}

\* GET /sessions: the sessions ordered by creation date, newest first.
listSessionsBody ==
  SelectSeq([i \in 1..MaxSessions |-> SessionIdOf(MaxSessions + 1 - i)],
            LAMBDA id : id \in serverSessions)

ListOk(list) == [ok |-> TRUE, list |-> list]
ListFailed == [ok |-> FALSE, list |-> <<>>]
NoList == [ok |-> FALSE, list |-> <<"none">>]

\* A folder; its name at creation is `${session1.title} & ${session2.title}`
\* (a session's title is modelled by its id).
Folder(id, a, b) == [id |-> id, name |-> a \o " & " \o b, sessionIds |-> <<a, b>>]
FolderId(n) == IF n = 0 THEN "folder_0" ELSE IF n = 1 THEN "folder_1"
               ELSE IF n = 2 THEN "folder_2" ELSE "folder_3"

includes(seq, x) == \E i \in 1..Len(seq) : seq[i] = x

\* The sessions that have a card on the page.
listed == {sessions[i] : i \in 1..Len(sessions)}

\* standaloneSessions of the index page: the listed sessions that are in no
\* folder. Only their cards can be dragged and dropped on; the cards inside
\* a folder have isDragDisabled.
standaloneSessions_all == listed

standaloneSessions ==
  {id \in listed : \A i \in 1..Len(folders) : ~includes(folders[i].sessionIds, id)}

\* loadSessions up to the await: setLoading(true), setError(null), GET
\* /sessions is sent. The Refresh button is disabled while loading; the call
\* made on mount is the one in flight in the initial state.
loadSessions ==
  /\ ~showDeleteModal
  /\ ~sessionsLoading
  /\ listPc = "none"
  /\ sessionsLoading' = TRUE
  /\ sessionsError' = ""
  /\ listPc' = "sent"
  /\ UNCHANGED <<sessions, folders, nFolders, listResp, showDeleteModal, sessionToDelete, deleting>>
  /\ UNCHANGED <<serverVars, pollVars, bridgeVars, pageVars, storeVars, createVars>>

\* The backend answers GET /sessions with the list as it is now, or fails.
listSessions ==
  /\ listPc = "sent"
  /\ listResp' \in {ListOk(listSessionsBody), ListFailed}
  /\ listPc' = "served"
  /\ UNCHANGED <<sessions, folders, nFolders, sessionsLoading, sessionsError, showDeleteModal,
                 sessionToDelete, deleting>>
  /\ UNCHANGED <<serverVars, pollVars, bridgeVars, pageVars, storeVars, createVars>>

\* The answer reaches loadSessions: setSessions(sessionList), or setError;
\* finally setLoading(false).
loadSessionsSettled ==
  /\ listPc = "served"
  /\ IF listResp.ok
       THEN sessions' = listResp.list /\ UNCHANGED sessionsError
       ELSE sessionsError' = "Failed to load sessions" /\ UNCHANGED sessions
  /\ sessionsLoading' = FALSE
  /\ listPc' = "none"
  /\ listResp' = NoList
  /\ UNCHANGED <<folders, nFolders, showDeleteModal, sessionToDelete, deleting>>
  /\ UNCHANGED <<serverVars, pollVars, bridgeVars, pageVars, storeVars, createVars>>

\* folders.find(f => f.sessionIds.includes(a) || f.sessionIds.includes(b)):
\* the index of the first such folder, 0 if there is none.
findFolder(fs, a, b) ==
  LET hit(i) == includes(fs[i].sessionIds, a) \/ includes(fs[i].sessionIds, b)
  IN IF \E i \in 1..Len(fs) : hit(i)
       THEN CHOOSE i \in 1..Len(fs) : hit(i) /\ \A j \in 1..(i - 1) : ~hit(j)
       ELSE 0

\* createFolder(session1Id, session2Id): one session card is dropped on
\* another. The folders it saves.
createFolder ==
  \E a \in standaloneSessions, b \in standaloneSessions :
    /\ ~showDeleteModal
    /\ a # b
    /\ includes(sessions, a)
    /\ includes(sessions, b)
    /\ LET e == findFolder(folders, a, b)
       IN IF e # 0
            THEN LET sessionToAdd == IF includes(folders[e].sessionIds, a) THEN b ELSE a
                 IN /\ ~includes(folders[e].sessionIds, sessionToAdd)
                    /\ folders' = [folders EXCEPT ![e].sessionIds = Append(@, sessionToAdd)]
                    /\ UNCHANGED nFolders
            ELSE /\ nFolders < MaxFolders
                 /\ folders' = Append(folders, Folder(FolderId(nFolders + 1), a, b))
                 /\ nFolders' = nFolders + 1
    /\ UNCHANGED <<sessions, sessionsLoading, sessionsError, listPc, listResp, showDeleteModal,
                   sessionToDelete, deleting>>
    /\ UNCHANGED <<serverVars, pollVars, bridgeVars, pageVars, storeVars, createVars>>

\* addToFolder(sessionId, folderId), given the folders: nothing when the
\* folder is missing or already holds the session; else the session is taken
\* out of every folder, appended to the target, and empty folders are dropped.
addToFolderResult(fs, sid, folderId) ==
  IF ~\E i \in 1..Len(fs) : fs[i].id = folderId /\ ~includes(fs[i].sessionIds, sid)
    THEN fs
    ELSE SelectSeq([i \in 1..Len(fs) |->
                      [fs[i] EXCEPT !.sessionIds =
                         IF fs[i].id = folderId
                           THEN Append(SelectSeq(@, LAMBDA id : id # sid), sid)
                           ELSE SelectSeq(@, LAMBDA id : id # sid)]],
                   LAMBDA f : Len(f.sessionIds) > 0)

\* addToFolder: a session card is dropped on a folder card.
addToFolder ==
  \E sid \in standaloneSessions, i \in 1..Len(folders) :
    /\ ~showDeleteModal
    /\ folders' = addToFolderResult(folders, sid, folders[i].id)
    /\ UNCHANGED <<sessions, nFolders, sessionsLoading, sessionsError, listPc, listResp,
                   showDeleteModal, sessionToDelete, deleting>>
    /\ UNCHANGED <<serverVars, pollVars, bridgeVars, pageVars, storeVars, createVars>>

\* removeFromFolder(sessionId), given the folders of the closure it runs
\* in: the session is taken out of every folder and folders left with fewer
\* than two sessions are dropped; saveFolders stores the result.
removeFromFolder_keepsSmall(fs, sid) ==
  [i \in 1..Len(fs) |->
     [fs[i] EXCEPT !.sessionIds = SelectSeq(@, LAMBDA id : id # sid)]]

removeFromFolder(fs, sid) ==
  SelectSeq([i \in 1..Len(fs) |->
               [fs[i] EXCEPT !.sessionIds = SelectSeq(@, LAMBDA id : id # sid)]],
            LAMBDA f : Len(f.sessionIds) >= 2)

\* onRemoveFromFolder: the "Remove from folder" control of a session shown
\* in an expanded folder card.
onRemoveFromFolder ==
  \E sid \in listed \ standaloneSessions :
    /\ ~showDeleteModal
    /\ folders' = removeFromFolder(folders, sid)
    /\ UNCHANGED <<sessions, nFolders, sessionsLoading, sessionsError, listPc, listResp,
                   showDeleteModal, sessionToDelete, deleting>>
    /\ UNCHANGED <<serverVars, pollVars, bridgeVars, pageVars, storeVars, createVars>>

\* deleteFolder(folderId): the delete control of a folder card. The folders
\* it saves.
deleteFolderResult_dropsAll(fs, folderId) == <<>>

deleteFolderResult(fs, folderId) == SelectSeq(fs, LAMBDA f : f.id # folderId)

deleteFolder ==
  \E i \in 1..Len(folders) :
    /\ ~showDeleteModal
    /\ folders' = deleteFolderResult(folders, folders[i].id)
    /\ UNCHANGED <<sessions, nFolders, sessionsLoading, sessionsError, listPc, listResp,
                   showDeleteModal, sessionToDelete, deleting>>
    /\ UNCHANGED <<serverVars, pollVars, bridgeVars, pageVars, storeVars, createVars>>

\* renameFolder(folderId, newName): the folder card passes the trimmed,
\* non-empty name the user typed.
renameFolder ==
  \E i \in 1..Len(folders), newName \in {"papers"} :
    /\ ~showDeleteModal
    /\ folders' = [j \in 1..Len(folders) |->
                     IF folders[j].id = folders[i].id
                       THEN [folders[j] EXCEPT !.name = newName]
                       ELSE folders[j]]
    /\ UNCHANGED <<sessions, nFolders, sessionsLoading, sessionsError, listPc, listResp,
                   showDeleteModal, sessionToDelete, deleting>>
    /\ UNCHANGED <<serverVars, pollVars, bridgeVars, pageVars, storeVars, createVars>>

\* handleDeleteSession(sessionId): the delete control of a card. The modal,
\* once shown, covers the page.
handleDeleteSession ==
  \E id \in SessionIds \cup listed :
    /\ ~showDeleteModal
    /\ IF ~includes(sessions, id)
         THEN UNCHANGED <<sessionToDelete, showDeleteModal>>
         ELSE /\ sessionToDelete' = id
              /\ showDeleteModal' = TRUE
    /\ UNCHANGED <<sessions, folders, nFolders, sessionsLoading, sessionsError, listPc, listResp,
                   deleting>>
    /\ UNCHANGED <<serverVars, pollVars, bridgeVars, pageVars, storeVars, createVars>>

\* confirmDelete up to the await (the Delete button of the modal): nothing
\* without a selection; else the modal is closed and DELETE /sessions is sent.
confirmDelete ==
  /\ showDeleteModal
  /\ IF sessionToDelete = NoSession
       THEN UNCHANGED <<showDeleteModal, deleting>>
       ELSE /\ Len(deleting) < MaxDeleting
            /\ showDeleteModal' = FALSE
            /\ deleting' = Append(deleting, [session |-> sessionToDelete, folders |-> folders])
  /\ UNCHANGED <<sessions, folders, nFolders, sessionsLoading, sessionsError, listPc, listResp,
                 sessionToDelete>>
  /\ UNCHANGED <<serverVars, pollVars, bridgeVars, pageVars, storeVars, createVars>>

\* DELETE /sessions settles for one confirmDelete call. Deleted (200): the
\* session is filtered out of the list, removed from the folders and from
\* the stored active id. Failed (404 for a session that is gone, or any other
\* failure): the catch block alerts. Finally setSessionToDelete(null).
confirmDeleteSettled ==
  \E k \in 1..Len(deleting) :
    LET d == deleting[k]
    IN /\ \/ /\ d.session \in serverSessions
             /\ serverSessions' = serverSessions \ {d.session}
             /\ sessions' = SelectSeq(sessions, LAMBDA id : id # d.session)
             /\ folders' = removeFromFolder(d.folders, d.session)
             /\ storedSessionId' = IF storedSessionId = d.session THEN "" ELSE storedSessionId
          \/ UNCHANGED <<serverSessions, sessions, folders, storedSessionId>>
       /\ sessionToDelete' = NoSession
       /\ deleting' = SubSeq(deleting, 1, k - 1) \o SubSeq(deleting, k + 1, Len(deleting))
       /\ UNCHANGED <<nFolders, sessionsLoading, sessionsError, listPc, listResp, showDeleteModal>>
       /\ UNCHANGED <<serverVars, pollVars, bridgeVars, pageVars, createVars>>

\* cancelDelete: the Cancel button of the modal.
cancelDelete ==
  /\ showDeleteModal
  /\ showDeleteModal' = FALSE
  /\ sessionToDelete' = NoSession
  /\ UNCHANGED <<sessions, folders, nFolders, sessionsLoading, sessionsError, listPc, listResp,
                 deleting>>
  /\ UNCHANGED <<serverVars, pollVars, bridgeVars, pageVars, storeVars, createVars>>

IndexIdle ==
  /\ sessions = <<>>
  /\ folders = <<>>
  /\ nFolders = 0
  /\ sessionsLoading = FALSE
  /\ sessionsError = ""
  /\ listPc = "none"
  /\ listResp = NoList
  /\ showDeleteModal = FALSE
  /\ sessionToDelete = NoSession
  /\ deleting = <<>>

\* The index page once the first loadSessions has settled, apart from the
\* session list: no folders, nothing in flight, the modal closed.
IndexLoaded ==
  /\ folders = <<>>
  /\ nFolders = 0
  /\ sessionsLoading = FALSE
  /\ sessionsError = ""
  /\ listPc = "none"
  /\ listResp = NoList
  /\ showDeleteModal = FALSE
  /\ sessionToDelete = NoSession
  /\ deleting = <<>>

\* ---------------------------------------------------------------------------
\* The session manager: creating a session under a name.
\* Strings the handler computes with are sequences of characters.
\* ---------------------------------------------------------------------------

TitledSessions == 5

\* The titles the server holds for the sessions (session.title).
SessionTitle(id) ==
  CASE id = "s1" -> <<"N", "e", "w", " ", "C", "h", "a", "t">>
    [] id = "s2" -> <<"n", "e", "w", " ", "c", "h", "a", "t", "(", "1", ")">>
    [] id = "s3" -> <<"a">>
    [] id = "s4" -> <<"A", "(", "1", ")">>
    [] id = "s5" -> <<"A", "(", "2", ")">>
    [] OTHER -> <<"x">>

\* What the user can have typed into the name field.
EnteredNames ==
  { <<>>, <<" ">>, <<"A">>, <<" ", "a", " ">>, <<"A", "(", "1", ")">>,
    <<"n", "e", "w", " ", "c", "h", "a", "t">> }

DefaultTitle == <<"N", "e", "w", " ", "C", "h", "a", "t">>

LowerChar(c) ==
  CASE c = "A" -> "a"
    [] c = "N" -> "n"
    [] c = "C" -> "c"
    [] OTHER -> c

\* String.prototype.toLowerCase
toLowerCase_asIs(str) == str
toLowerCase(str) == [i \in 1..Len(str) |-> LowerChar(str[i])]

RECURSIVE trimStart(_)
trimStart(str) ==
  IF str # <<>> /\ Head(str) = " " THEN trimStart(Tail(str)) ELSE str

RECURSIVE trimEnd(_)
trimEnd(str) ==
  IF str # <<>> /\ str[Len(str)] = " " THEN trimEnd(SubSeq(str, 1, Len(str) - 1)) ELSE str

\* String.prototype.trim
trim(str) == trimEnd(trimStart(str))

DigitChar(d) ==
  CASE d = 0 -> "0" [] d = 1 -> "1" [] d = 2 -> "2" [] d = 3 -> "3" [] d = 4 -> "4"
    [] d = 5 -> "5" [] d = 6 -> "6" [] d = 7 -> "7" [] d = 8 -> "8" [] OTHER -> "9"

\* The decimal digits of a counter, as the template literal prints them.
RECURSIVE toString(_)
toString(n) ==
  IF n < 10 THEN <<DigitChar(n)>> ELSE toString(n \div 10) \o <<DigitChar(n % 10)>>

\* `${title}(${counter})`
numbered(title, counter) == title \o <<"(">> \o toString(counter) \o <<")">>

\* sessions.map(session => session.title.toLowerCase())
existingTitles == [i \in 1..Len(sessions) |-> toLowerCase(SessionTitle(sessions[i]))]

\* while (existingTitles.includes(finalTitle.toLowerCase())) { ... }
RECURSIVE uniqueTitle(_, _, _, _)
uniqueTitle(existing, title, finalTitle, counter) ==
  IF includes(existing, toLowerCase(finalTitle))
    THEN uniqueTitle(existing, title, numbered(title, counter), counter + 1)
    ELSE finalTitle

\* newSessionName.trim() || "New Chat"
baseTitle(name) == IF trim(name) = <<>> THEN DefaultTitle ELSE trim(name)

\* The id the server gives the session it creates for the session manager.
CreatedSessionId == "s6"

\* The "New Chat" button, disabled while a session is being created; the
\* delete modal's overlay covers it.
handleCreateNewChat ==
  /\ ~creatingSession
  /\ ~showNameModal
  /\ ~showDeleteModal
  /\ createPc # "created"
  /\ newSessionName' = <<>>
  /\ showNameModal' = TRUE
  /\ UNCHANGED <<creatingSession, createPc, sentTitle>>
  /\ UNCHANGED <<sessions, folders, nFolders, sessionsLoading, sessionsError, listPc, listResp,
                 showDeleteModal, sessionToDelete, deleting>>
  /\ UNCHANGED <<serverVars, pollVars, bridgeVars, pageVars, storeVars>>

\* Typing into the name field of the modal.
handleSessionNameChange ==
  /\ showNameModal
  /\ \E name \in EnteredNames :
       /\ name # newSessionName
       /\ newSessionName' = name
  /\ UNCHANGED <<showNameModal, creatingSession, createPc, sentTitle>>
  /\ UNCHANGED <<sessions, folders, nFolders, sessionsLoading, sessionsError, listPc, listResp,
                 showDeleteModal, sessionToDelete, deleting>>
  /\ UNCHANGED <<serverVars, pollVars, bridgeVars, pageVars, storeVars>>

\* Cancel or Escape in the modal.
handleCloseModal ==
  /\ showNameModal
  /\ showNameModal' = FALSE
  /\ UNCHANGED <<newSessionName, creatingSession, createPc, sentTitle>>
  /\ UNCHANGED <<sessions, folders, nFolders, sessionsLoading, sessionsError, listPc, listResp,
                 showDeleteModal, sessionToDelete, deleting>>
  /\ UNCHANGED <<serverVars, pollVars, bridgeVars, pageVars, storeVars>>

\* "Create Chat" or Enter in the modal, up to the createSession request.
handleCreateWithName ==
  /\ showNameModal
  /\ ~creatingSession
  /\ showNameModal' = FALSE
  /\ creatingSession' = TRUE
  /\ LET title == baseTitle(newSessionName)
     IN sentTitle' = uniqueTitle(existingTitles, title, title, 1)
  /\ createPc' = "sent"
  /\ UNCHANGED newSessionName
  /\ UNCHANGED <<sessions, folders, nFolders, sessionsLoading, sessionsError, listPc, listResp,
                 showDeleteModal, sessionToDelete, deleting>>
  /\ UNCHANGED <<serverVars, pollVars, bridgeVars, pageVars, storeVars>>

\* createSession settles. Created: the new id is stored and the router goes
\* to the chat page. Failed: the catch block alerts. Either way the finally
\* block clears creatingSession.
handleCreateWithNameSettled ==
  /\ createPc = "sent"
  /\ creatingSession' = FALSE
  /\ \/ /\ serverSessions' = serverSessions \cup {CreatedSessionId}
        /\ storedSessionId' = CreatedSessionId
        /\ createPc' = "created"
     \/ /\ createPc' = "failed"
        /\ UNCHANGED <<serverSessions, storedSessionId>>
  /\ UNCHANGED <<showNameModal, newSessionName, sentTitle>>
  /\ UNCHANGED <<sessions, folders, nFolders, sessionsLoading, sessionsError, listPc, listResp,
                 showDeleteModal, sessionToDelete, deleting>>
  /\ UNCHANGED <<serverVars, pollVars, bridgeVars, pageVars>>

CreateIdle ==
  /\ showNameModal = FALSE
  /\ newSessionName = <<>>
  /\ creatingSession = FALSE
  /\ createPc = "none"
  /\ sentTitle = <<>>

ManagerIdle ==
  /\ IndexIdle
  /\ CreateIdle
  /\ serverSessions = {PageSession}
  /\ storedSessionId = PageSession

----------------------------------------------------------------------------
\* Specification of one pollDocumentStatus call against the backend.

ServerInit ==
  /\ sessPresent = TRUE
  /\ serverDocs \in {<<Doc(OtherDoc, "upload", "ready"), Doc(TargetDoc, src, "pending")>> :
                       src \in {"upload", "arxiv"}}

PollIdle ==
  /\ maxAttempts = 0
  /\ pollPc = "done"
  /\ attempts = 0
  /\ pollFetches = 0
  /\ pollInFlight = 0
  /\ updates = <<>>
  /\ pollResult = "none"
  /\ pollLastResp = NoResponse
  /\ pollReturned = NoDoc

InitPoll ==
  /\ ManagerIdle
  /\ ServerInit
  /\ serverMessages = <<>>
  /\ emitted = 0
  /\ BackendIdle
  /\ BridgeIdle
  /\ PageIdle
  /\ SendIdle
  /\ maxAttempts \in 0..MaxPollAttempts
  /\ pollPc = "loop"
  /\ attempts = 0
  /\ pollFetches = 0
  /\ pollInFlight = 0
  /\ updates = <<>>
  /\ pollResult = "none"
  /\ pollLastResp = NoResponse
  /\ pollReturned = NoDoc

NextPoll ==
  \/ pollFetch
  \/ pollTimeout
  \/ pollResume
  \/ pollWake
  \/ pipelineStep
  \/ deleteDocument
  \/ deleteSession

SpecPoll == InitPoll /\ [][NextPoll]_vars

----------------------------------------------------------------------------
\* Specification of the documents of one session on the backend.

InitDocuments ==
  /\ ManagerIdle
  /\ sessPresent = TRUE
  /\ serverDocs = <<>>
  /\ serverMessages = <<>>
  /\ emitted = 0
  /\ BackendIdle
  /\ PollIdle
  /\ BridgeIdle
  /\ PageIdle
  /\ SendIdle

NextDocuments ==
  \/ createDocument
  \/ transitionCall
  \/ pipelineStep
  \/ deleteSession

SpecDocuments == InitDocuments /\ [][NextDocuments]_vars

----------------------------------------------------------------------------
\* Specification of the progress event stream of one document.

InitStream ==
  /\ ManagerIdle
  /\ sessPresent = TRUE
  /\ serverDocs = <<Doc(TargetDoc, "upload", "inserting")>>
  /\ serverMessages = <<>>
  /\ emitted = 0
  /\ BackendIdle
  /\ PollIdle
  /\ BridgeIdle
  /\ PageIdle
  /\ SendIdle

NextStream ==
  \/ subscribe
  \/ publish
  \/ receive
  \/ unsubscribe

SpecStream == InitStream /\ [][NextStream]_vars

----------------------------------------------------------------------------
\* Specification of one request to the chat bridge.

InitBridge ==
  /\ ManagerIdle
  /\ sessPresent = TRUE
  /\ serverDocs = <<>>
  /\ serverMessages \in {<<>>, <<UserMsg(OldMsg), ReplyMsg(OldMsg)>>}
  /\ emitted = 0
  /\ BackendIdle
  /\ PollIdle
  /\ statusMessages = <<>>
  /\ documents = <<>>
  /\ uploadingFile = FALSE
  /\ ings = [n \in 1..MaxIngestions |-> NoIngestion]
  /\ nIngs = 0
  /\ loads = <<>>
  /\ messages = <<>>
  /\ loading = FALSE
  /\ mounted = TRUE
  /\ ResetIdle
     \* a request some client sends to /api/chat, or the chat page about to
     \* send one
  /\ \/ /\ sessionId = ""
        /\ sendPc = "none"
        /\ reqMethod \in {"POST", "GET"}
        /\ reqSessionId \in {"s1", ""}
        /\ reqContent \in {"q", ""}
        /\ brPc = "start"
     \/ /\ sessionId \in {PageSession, ""}
        /\ sendPc = "idle"
        /\ reqMethod = "POST"
        /\ reqSessionId = ""
        /\ reqContent = ""
        /\ brPc = "idle"
  /\ brPostResp = NoAnswer
  /\ messageId = Undefined
  /\ attempt = 0
  /\ brPosts = 0
  /\ brFetches = 0
  /\ brLastResp = NoAnswer
  /\ idFound = FALSE
  /\ resCount = 0
  /\ resStatus = 0
  /\ resBody = "none"

NextBridge ==
  \/ handleSend
  \/ handleSendSettled
  \/ handler
  \/ handlerPosted
  \/ handlerSleep
  \/ handlerTimeout
  \/ handlerWake
  \/ handlerFetched
  \/ backendPost
  \/ backendReply
  \/ otherRequest
  \/ deleteSession

SpecBridge == InitBridge /\ [][NextBridge]_vars

----------------------------------------------------------------------------
\* Specification of the chat page with an initialised session.

InitPage ==
  /\ ManagerIdle
  /\ sessPresent = TRUE
  /\ serverDocs = <<>>
  /\ serverMessages = <<>>
  /\ emitted = 0
  /\ BackendIdle
  /\ PollIdle
  /\ BridgeIdle
  /\ sessionId = PageSession
  /\ statusMessages = <<>>
  /\ documents = <<>>
  /\ uploadingFile = FALSE
  /\ ings = [n \in 1..MaxIngestions |-> NoIngestion]
  /\ nIngs = 0
  /\ loads = <<>>
  /\ SendIdle
  /\ mounted = TRUE
  /\ ResetIdle

NextPage ==
  \/ navigateAway
  \/ handleReset
  \/ handleResetSettled
  \/ handleFileUpload
  \/ handleAddArxivPaper
  \/ ingestionAccepted
  \/ ingestionRefused
  \/ streamEmit
  \/ streamDeliver
  \/ streamError
  \/ loadDocumentsSettled

SpecPage == InitPage /\ [][NextPage]_vars

----------------------------------------------------------------------------
\* Specification of the index page: the session list has just been requested
\* on mount, the folders were read from localStorage, and the stored active
\* session id is whatever an earlier visit left.

InitSessions ==
  /\ sessPresent = TRUE
  /\ serverDocs = <<>>
  /\ serverMessages = <<>>
  /\ emitted = 0
  /\ BackendIdle
  /\ PollIdle
  /\ BridgeIdle
  /\ PageIdle
  /\ SendIdle
  /\ serverSessions = SessionIds
  /\ storedSessionId \in {"", SessionIdOf(1)}
  /\ CreateIdle
  /\ sessions = <<>>
  /\ folders \in {<<>>, <<Folder(FolderId(0), SessionIdOf(1), SessionIdOf(2))>>}
  /\ nFolders = 0
  /\ sessionsLoading = TRUE
  /\ sessionsError = ""
  /\ listPc = "sent"
  /\ listResp = NoList
  /\ showDeleteModal = FALSE
  /\ sessionToDelete = NoSession
  /\ deleting = <<>>

NextSessions ==
  \/ loadSessions
  \/ listSessions
  \/ loadSessionsSettled
  \/ handleDeleteSession
  \/ confirmDelete
  \/ confirmDeleteSettled
  \/ cancelDelete

SpecSessions == InitSessions /\ [][NextSessions]_vars

----------------------------------------------------------------------------
\* Specification of the folders of the index page: the session list is
\* loaded, there are no folders yet, and the user arranges the sessions in
\* folders.

\* Sessions in the list.
FolderSessions == 4

InitFolderOps ==
  /\ sessPresent = TRUE
  /\ serverDocs = <<>>
  /\ serverMessages = <<>>
  /\ emitted = 0
  /\ BackendIdle
  /\ PollIdle
  /\ BridgeIdle
  /\ PageIdle
  /\ SendIdle
  /\ serverSessions = {SessionIdOf(i) : i \in 1..FolderSessions}
  /\ storedSessionId = ""
  /\ CreateIdle
  /\ sessions = [i \in 1..FolderSessions |-> SessionIdOf(FolderSessions + 1 - i)]
  /\ IndexLoaded

NextFolderOps ==
  \/ createFolder
  \/ addToFolder
  \/ onRemoveFromFolder
  \/ deleteFolder
  \/ renameFolder

SpecFolderOps == InitFolderOps /\ [][NextFolderOps]_vars

----------------------------------------------------------------------------
\* Specification of folders and session deletion on the index page: the
\* session list is loaded, there are no folders yet, and the user arranges
\* sessions in folders and deletes sessions through the modal.

InitFolders ==
  /\ sessPresent = TRUE
  /\ serverDocs = <<>>
  /\ serverMessages = <<>>
  /\ emitted = 0
  /\ BackendIdle
  /\ PollIdle
  /\ BridgeIdle
  /\ PageIdle
  /\ SendIdle
  /\ serverSessions = SessionIds
  /\ storedSessionId \in {"", SessionIdOf(1)}
  /\ CreateIdle
  /\ sessions = listSessionsBody
  /\ IndexLoaded

NextFolders ==
  \/ createFolder
  \/ addToFolder
  \/ onRemoveFromFolder
  \/ deleteFolder
  \/ renameFolder
  \/ handleDeleteSession
  \/ confirmDelete
  \/ confirmDeleteSettled
  \/ cancelDelete

SpecFolders == InitFolders /\ [][NextFolders]_vars

----------------------------------------------------------------------------
\* Properties of pollDocumentStatus.

\* The call is over and every getDocuments call it made returned a list that
\* showed the target document in a non-terminal status (one onStatusUpdate
\* per fetch, each with a non-terminal status).
EveryFetchNonTerminal ==
  /\ pollInFlight = 0
  /\ Len(updates) = pollFetches
  /\ \A i \in 1..Len(updates) : updates[i].status \in NonTerminal

\* Once the call has settled it makes no getDocuments request and no
\* onStatusUpdate call.
QuietAfterDone ==
  [][pollPc = "done" => (pollFetches' = pollFetches /\ updates' = updates /\ pollPc' = "done")]_vars

\* C1: if every fetched list shows the target document non-terminal, the call
\* makes exactly maxAttempts fetches, then fails with the timeout error, and
\* makes no fetch and no onStatusUpdate afterwards (for every maxAttempts >= 0).
C1_PollTimeout ==
  /\ []((pollPc = "done" /\ EveryFetchNonTerminal)
          => (pollResult = "Timeout" /\ pollFetches = maxAttempts))
  /\ [](pollFetches <= maxAttempts)
  /\ QuietAfterDone

C1_Witness ==
  /\ pollPc = "done"
  /\ EveryFetchNonTerminal
  /\ pollResult = "Timeout"
  /\ maxAttempts >= 3
  /\ pollFetches = maxAttempts

\* C2: when the k-th fetch is the first to show the document ready or error,
\* the call returns that document after exactly k fetches, its last
\* onStatusUpdate is (that status, 100), and nothing is fetched or reported
\* after the return.
C2_ReturnsOnTerminal ==
  /\ [](pollResult = "Returned" =>
          /\ pollPc = "done"
          /\ pollInFlight = 0
          /\ pollReturned = find(pollLastResp.body, TargetDoc)
          /\ pollReturned.status \in Terminal
          /\ Len(updates) = pollFetches + 1
          /\ \A i \in 1..(pollFetches - 1) : updates[i].status \in NonTerminal
          /\ updates[pollFetches].status = pollReturned.status
          /\ updates[Len(updates)] = Update(pollReturned.status, 100))
  /\ []((\E i \in 1..Len(updates) : updates[i].status \in Terminal)
          => pollResult = "Returned")
  /\ QuietAfterDone

C2_Witness ==
  /\ pollResult = "Returned"
  /\ pollReturned.status = "error"
  /\ pollFetches = 5
  /\ updates[4].status = "inserting"
  /\ updates[6] = Update("error", 100)

\* C3: no onStatusUpdate call carries status ready or error together with a
\* progress strictly between 0 and 100.
C3_TerminalNeverMidBand ==
  \A i \in 1..Len(updates) :
    updates[i].status \in Terminal
      => ~(0 < updates[i].progress /\ updates[i].progress < 100)

\* C4: a non-terminal status seen on attempt a (from 0) is reported with
\* progress 10 (pending), 30 (downloading) or 50 + min(2a, 40) (inserting);
\* so every such progress lies in [10, 90] and, while the status stays
\* inserting, never decreases from one attempt to the next.
C4_Band(status, a) ==
  CASE status = "pending" -> 10
    [] status = "downloading" -> 30
    [] status = "inserting" -> IF 2 * a < 40 THEN 50 + 2 * a ELSE 90

C4_ProgressBands ==
  /\ \A i \in 1..Len(updates) :
       updates[i].status \in NonTerminal =>
         /\ updates[i].progress = C4_Band(updates[i].status, i - 1)
         /\ 10 <= updates[i].progress
         /\ updates[i].progress <= 90
  /\ \A i \in 1..(Len(updates) - 1) :
       (updates[i].status = "inserting" /\ updates[i + 1].status = "inserting")
         => updates[i].progress <= updates[i + 1].progress

C4_Witness ==
  /\ Len(updates) >= 22
  /\ updates[1].progress = 10
  /\ updates[2].progress = 30
  /\ updates[3].progress = 54
  /\ updates[22] = Update("inserting", 90)

\* C8: a transient failure of a getDocuments call is retried on later
\* attempts, up to maxAttempts, instead of ending the poll on the first
\* failed fetch.
TransientFailure(resp) ==
  resp.kind = "reject" \/ (resp.kind = "status" /\ resp.code = 500)

C8_TransientFetchRetried ==
  (pollPc = "done" /\ TransientFailure(pollLastResp)) => pollFetches = maxAttempts

\* C9: when the target id has disappeared (the document, or its whole
\* session, was deleted), the poll stops on that attempt with the
\* document-not-found failure.
Disappeared(resp) ==
  \/ resp.kind = "ok" /\ find(resp.body, TargetDoc) = NoDoc
  \/ resp.kind = "status" /\ resp.code = 404

C9_DisappearedIsNotFound ==
  (pollLastResp # NoResponse /\ Disappeared(pollLastResp))
    => (pollPc = "done" /\ pollResult = "DocumentNotFound")

----------------------------------------------------------------------------
\* Properties of the chat bridge.

\* The history msgs holds the user message id directly followed by an
\* assistant message.
HasReplyAfter(msgs, id) ==
  \E i \in 1..(Len(msgs) - 1) :
    msgs[i].id = id /\ msgs[i].role = "user" /\ msgs[i + 1].role = "assistant"

ReplyAfter(msgs, id) ==
  msgs[(CHOOSE i \in 1..(Len(msgs) - 1) : msgs[i].id = id /\ msgs[i].role = "user") + 1]

\* Once the bridge has answered it sends no request and writes no response.
BridgeQuietAfterDone ==
  [][brPc = "done" => (brFetches' = brFetches /\ brPosts' = brPosts /\ resCount' = resCount
                        /\ resStatus' = resStatus /\ brPc' = "done")]_vars

\* C5: the bridge resolves on the first history fetch whose list holds the
\* submitted user message directly followed by an assistant message, answers
\* 200 with exactly that message, and fetches no more.
C5_ResolvesOnFirstMatch ==
  /\ []((brLastResp.kind = "ok" /\ HasReplyAfter(brLastResp.body, messageId))
          => /\ brPc = "done"
             /\ resStatus = 200
             /\ resBody = ReplyAfter(brLastResp.body, messageId))
  /\ [](resStatus = 200
          => /\ brLastResp.kind = "ok"
             /\ HasReplyAfter(brLastResp.body, messageId)
             /\ messageId = OwnMsg
             /\ brFetches = attempt + 1)
  /\ BridgeQuietAfterDone

\* The example of the claim: the first fetch ends with the user message, the
\* second shows the reply, and the bridge resolves on the second.
C5_Witness ==
  /\ brPc = "done"
  /\ resStatus = 200
  /\ brFetches = 2
  /\ attempt = 1
  /\ resBody = ReplyMsg(OwnMsg)
  /\ brLastResp.body = <<UserMsg(OldMsg), ReplyMsg(OldMsg), UserMsg(OwnMsg), ReplyMsg(OwnMsg)>>

\* C6: a request whose history fetches never reach a match makes exactly 60
\* history fetches and then answers 504.
C6_NoMatchEndsIn504 ==
  (brPc = "done" /\ brPostResp.kind = "ok" /\ resStatus # 200)
    => (resStatus = 504 /\ brFetches = BridgeMaxAttempts)

\* C7: a history fetch that fails (non-OK answer, failed request, unparsable
\* body) counts as not yet resolved: the bridge goes on to the next tick, and
\* ends with the timeout only when the attempts are exhausted.
C7_FailedFetchRetried ==
  (brLastResp.kind \in {"status", "reject", "badjson"} /\ brPc = "done")
    => (resStatus = 504 /\ brFetches = BridgeMaxAttempts)

----------------------------------------------------------------------------
\* Properties of the chat page's progress streams.

\* Ingestion n has received its terminal event ({event: complete} or
\* {event: error}).
TerminalReceived(n) == ings[n].end \in {"complete", "error"}

\* C10: once the page has received the terminal event of a stream, the
\* stream is closed, and no event of that stream that arrives later changes
\* the status messages, the document list or uploadingFile.
C10_NothingAfterTerminal ==
  /\ [](\A n \in 1..MaxIngestions : TerminalReceived(n) => ings[n].es = "closed")
  /\ [][\A n \in 1..MaxIngestions :
          (TerminalReceived(n) /\ Len(ings'[n].queue) < Len(ings[n].queue))
            => /\ statusMessages' = statusMessages
               /\ documents' = documents
               /\ uploadingFile' = uploadingFile
               /\ loads' = loads
               /\ ings'[n].discarded = ings[n].discarded + 1]_vars

\* A second ingestion is under way while an event of the first stream has
\* arrived after its terminal event.
C10_Witness ==
  /\ ings[1].end = "error"
  /\ ings[1].discarded = 1
  /\ statusMessages[1].status = "error"
  /\ nIngs = 2
  /\ uploadingFile

\* C11: when the page receives the terminal event of a stream, {event:
\* complete} or {event: error}, it calls loadDocuments for the session of
\* that ingestion; the document list changes by such a fetch only.
C11_TerminalRefetches ==
  [][/\ \A n \in 1..MaxIngestions :
          (~TerminalReceived(n) /\ TerminalReceived(n)')
            => loads' = Append(loads, ings[n].sid)
     /\ documents' # documents => Len(loads') < Len(loads)]_vars

\* The stream of ingestion n has ended abnormally (eventSource.onerror).
Disconnected(n) == ings[n].end = "stream_error"

\* C12: when a stream disconnects abnormally the page calls loadDocuments
\* for the session and does not report the ingestion as failed: the
\* disconnect sets no "error" status message.
C12_DisconnectRefetches ==
  [][\A n \in 1..MaxIngestions :
       (~Disconnected(n) /\ Disconnected(n)')
         => /\ loads' = Append(loads, ings[n].sid)
            /\ statusMessages'[Len(statusMessages')].status # "error"]_vars

----------------------------------------------------------------------------
\* Properties of the document status model.

\* The position of a status on the path pending -> downloading -> inserting
\* -> ready | error.
Rank(status) ==
  CASE status = "pending" -> 0
    [] status = "downloading" -> 1
    [] status = "inserting" -> 2
    [] OTHER -> 3

\* C13: a document's status only moves forward along pending -> downloading
\* (arXiv only) -> inserting -> ready | error: it never regresses, an upload
\* document is never in downloading, ready and error are never left, and a
\* transition call that is backward or starts from a terminal status fails
\* with InvalidTransition and leaves the status as it was.
C13_StatusMovesForward ==
  /\ [](\A i \in 1..Len(serverDocs) :
          serverDocs[i].source_type = "upload" => serverDocs[i].status # "downloading")
  /\ [][\A i \in 1..Len(serverDocs) :
          (i <= Len(serverDocs') /\ serverDocs'[i].status # serverDocs[i].status)
            => /\ serverDocs'[i].id = serverDocs[i].id
               /\ serverDocs[i].status \notin Terminal
               /\ Rank(serverDocs'[i].status) > Rank(serverDocs[i].status)]_vars
  /\ [][(lastTransition' # lastTransition
          /\ (lastTransition'.from \in Terminal
                \/ Rank(lastTransition'.to) <= Rank(lastTransition'.from)))
          => /\ lastTransition'.result = "InvalidTransition"
             /\ serverDocs' = serverDocs]_vars

\* A ready document was asked to go back to inserting, the call failed with
\* InvalidTransition and the document is still ready.
C13_Witness ==
  /\ lastTransition = [id |-> TargetDoc, from |-> "ready", to |-> "inserting",
                       result |-> "InvalidTransition"]
  /\ find(serverDocs, TargetDoc).status = "ready"
  /\ Len(serverDocs) = 2

----------------------------------------------------------------------------
\* Properties of the progress event stream.

\* The events sent to subscriber k so far: those it received and those still
\* on its channel.
SentTo(k) == subs[k].received \o subs[k].inbox

IsPrefix(a, b) == Len(a) <= Len(b) /\ a = SubSeq(b, 1, Len(a))

\* C14: two subscribers attached to the stream of the same document over the
\* same interval are sent identical event sequences, in the order the
\* pipeline produced the events; what one has received so far is a prefix of
\* what the other was sent.
C14_FanOut ==
  \A j, k \in 1..MaxSubs :
    (subs[j].state = "attached" /\ subs[k].state = "attached" /\ subs[j].at = subs[k].at)
      => /\ SentTo(j) = SentTo(k)
         /\ SentTo(j) = SubSeq(produced, subs[j].at + 1, Len(produced))
         /\ IsPrefix(subs[j].received, SentTo(k))

\* Two subscribers attached together, two events were produced, and one
\* subscriber has received both while the other has received none.
C14_Witness ==
  /\ subs[1].state = "attached" /\ subs[2].state = "attached"
  /\ subs[1].at = subs[2].at
  /\ Len(produced) - subs[1].at = 2
  /\ Len(subs[1].received) = 2
  /\ Len(subs[2].inbox) = 2

\* C15: a subscriber observes the events produced after it attached and none
\* of the earlier ones; one that attached after the terminal event was
\* produced never receives a terminal event.
C15_NoReplay ==
  \A k \in 1..MaxSubs :
    /\ subs[k].state = "attached"
         => SentTo(k) = SubSeq(produced, subs[k].at + 1, Len(produced))
    /\ subs[k].state \in {"ended", "left"}
         => IsPrefix(subs[k].received, SubSeq(produced, subs[k].at + 1, subs[k].upto))
    /\ subs[k].state = "ended"
         => subs[k].received = SubSeq(produced, subs[k].at + 1, subs[k].upto)
    /\ (subs[k].state # "none" /\ TerminalProduced(SubSeq(produced, 1, subs[k].at)))
         => ~TerminalProduced(SentTo(k))

\* A subscriber attached after the terminal event and was sent nothing, and
\* another attached after the first event and received the rest.
C15_Witness ==
  /\ Len(produced) = 2
  /\ TerminalProduced(produced)
  /\ subs[1].state = "ended" /\ subs[1].at = 1 /\ Len(subs[1].received) = 1
  /\ subs[2].state = "attached" /\ subs[2].at = 2 /\ SentTo(2) = <<>>

----------------------------------------------------------------------------
\* Further properties of the chat bridge.

\* The request passed the method and body checks.
ValidRequest == reqMethod = "POST" /\ reqSessionId # "" /\ reqContent # ""

\* C16: per chat request the bridge makes exactly one submission (one POST
\* of the user's content); every request it issues afterwards is a read of
\* the history, and no step of the polling changes the session's history.
C16_OneSubmissionThenReads ==
  /\ [](brPosts <= 1)
  /\ []((ValidRequest /\ brPc # "start") => brPosts = 1)
  /\ [](brFetches > 0 => brPosts = 1)
  /\ [][brPosts' # brPosts => (brPosts' = brPosts + 1 /\ brFetches = 0)]_vars
  /\ [][(brPc \in {"loop", "sleeping", "fetching"} /\ bridgeVars' # bridgeVars)
          => serverMessages' = serverMessages]_vars

\* A request polled to the end: one submission, sixty history reads, and the
\* history holds the one user message the submission stored.
C16_Witness ==
  /\ brPc = "done"
  /\ resStatus = 504
  /\ brPosts = 1
  /\ brFetches = BridgeMaxAttempts
  /\ serverMessages = <<UserMsg(OwnMsg)>>

\* The texts the catch block of handleSend can show.
SendErrors ==
  {"Error: " \o t : t \in {UpstreamText(400), UpstreamText(404),
                           "Failed to send message", "Failed to fetch"}}

\* C17: when the upstream refuses the submission, the bridge answers with
\* the upstream's status and error text and sends no history request, and
\* the chat page shows the failure as an error message; the failed query is
\* neither dropped nor shown as an answer.
C17_RefusalSurfaced ==
  /\ (brPc = "done" /\ brPostResp.kind = "status")
       => /\ resStatus = brPostResp.code
          /\ resBody = UpstreamText(brPostResp.code)
          /\ brFetches = 0
          /\ resCount = 1
  /\ (sendPc = "settled" /\ brPostResp.kind = "status")
       => /\ Len(messages) = 2
          /\ messages[2].role = "assistant"
          /\ messages[2].content \in SendErrors
          /\ ~loading

\* The page's query was refused with 400 (no ready document) and the page
\* shows the upstream's error text.
C17_Witness ==
  /\ sendPc = "settled"
  /\ brPostResp = Refused(400)
  /\ resStatus = 400
  /\ messages = <<ChatMsg("user", "q"), ChatMsg("assistant", "Error: " \o UpstreamText(400))>>

\* C18: when no history the bridge fetches holds a message with the
\* submission's message_id (also when the submission response has no
\* message_id field), the bridge polls for all 60 attempts and ends with the
\* timeout answer, as for an unanswered query.
C18_IdNeverFoundTimesOut ==
  (brPc = "done" /\ brPostResp.kind = "ok" /\ ~idFound)
    => (resStatus = 504 /\ brFetches = BridgeMaxAttempts)

----------------------------------------------------------------------------
\* Further properties of pollDocumentStatus.

\* C19: one pollDocumentStatus call never has two getDocuments requests in
\* flight: the fetch of attempt n+1 is sent only after the fetch of attempt n
\* has settled and the delay after it has elapsed (attempts counts the
\* elapsed delays).
C19_OneFetchInFlight ==
  /\ [](pollInFlight <= 1)
  /\ [][pollFetches' # pollFetches
          => /\ pollFetches' = pollFetches + 1
             /\ pollInFlight = 0
             /\ attempts = pollFetches
             /\ pollPc = "loop"]_vars
  /\ [][attempts' # attempts => (pollInFlight = 0 /\ pollPc = "sleeping")]_vars

\* The third fetch of a call is in flight, alone.
C19_Witness ==
  /\ pollFetches = 3
  /\ attempts = 2
  /\ pollInFlight = 1
  /\ pollPc = "fetching"

----------------------------------------------------------------------------
\* Cancellation.

\* C20: a caller can cancel a running poll or progress subscription (the
\* user navigates away from the chat page); after the cancellation no further
\* document-list or history request is sent, no progress stream is left
\* subscribed, and the cancellation changes nothing on the server.
C20_CancelStopsRequests ==
  /\ [](~mounted => \A n \in 1..MaxIngestions : ings[n].es # "open")
  /\ [][~mounted => /\ Len(loads') <= Len(loads)
                    /\ pollFetches' = pollFetches
                    /\ brFetches' = brFetches]_vars
  /\ [][(mounted /\ ~mounted') => serverVars' = serverVars]_vars

----------------------------------------------------------------------------
\* The observers are read-only.

----------------------------------------------------------------------------
\* Two requests to the chat bridge for one session.

\* C22: with another request for the same session in flight, in every
\* interleaving of the two submissions and of the backend's replies a bridge
\* that resolves returns the assistant message that answers its own user
\* message, never the reply to the other request, and a bridge does not time
\* out when the history it fetched last held its own reply.
C22_OwnReplyOnly ==
  /\ (brPc = "done" /\ resStatus = 200 /\ messageId = OwnMsg)
       => resBody = ReplyMsg(OwnMsg)
  /\ (brPc = "done" /\ resStatus = 504 /\ messageId = OwnMsg /\ brLastResp.kind = "ok")
       => ReplyMsg(OwnMsg).id \notin Ids(brLastResp.body)

\* The history msgs holds the user message id, no assistant message directly
\* after it, and an assistant message further down.
ReplyFurtherDown(msgs, id) ==
  /\ ~HasReplyAfter(msgs, id)
  /\ \E i, j \in 1..Len(msgs) :
       msgs[i].id = id /\ msgs[i].role = "user" /\ j > i + 1 /\ msgs[j].role = "assistant"

\* C23: the bridge matches by strict positional adjacency: a fetched history
\* in which the entry directly after the matched user message is not an
\* assistant message, or in which the user message is the last entry, does
\* not resolve the request, also when an assistant message appears further
\* down; the bridge goes on to the next attempt.
C23_StrictAdjacency ==
  /\ []((brLastResp.kind = "ok" /\ ~HasReplyAfter(brLastResp.body, messageId))
          => resStatus # 200)
  /\ [][(brPc = "fetching" /\ brPc' # "fetching" /\ brLastResp'.kind = "ok"
           /\ ~HasReplyAfter(brLastResp'.body, messageId))
          => /\ brPc' = "loop"
             /\ attempt' = attempt + 1
             /\ resCount' = resCount]_vars

\* The fetched history holds the bridge's user message, then the other
\* request's user message, then an assistant message: the bridge polls on.
C23_Witness ==
  /\ brLastResp.kind = "ok"
  /\ ReplyFurtherDown(brLastResp.body, messageId)
  /\ messageId = OwnMsg
  /\ brPc = "loop"
  /\ attempt = 1
  /\ resCount = 0

\* C24: every request to the bridge is answered exactly once, and a request
\* that is not a POST (405) or that lacks sessionId or content (400) is
\* answered without any request to the backend, so it creates no user
\* message.
C24_OneResponseInvalidUntouched ==
  /\ resCount <= 1
  /\ brPc = "done" => (resCount = 1 /\ resStatus # 0)
  /\ brPc \in {"start", "posting", "loop", "sleeping", "fetching"} => resCount = 0
  /\ (brPc = "done" /\ ~ValidRequest)
       => /\ resStatus = (IF reqMethod # "POST" THEN 405 ELSE 400)
          /\ brPosts = 0
          /\ brFetches = 0
          /\ brPostResp = NoAnswer
          /\ OwnMsg \notin Ids(serverMessages)

\* The page sent a query with empty content: answered 400, nothing was sent
\* to the backend, and the page shows the error.
C24_Witness ==
  /\ sendPc = "settled"
  /\ reqContent = ""
  /\ resStatus = 400
  /\ resCount = 1
  /\ brPosts = 0
  /\ messages[2].content = "Error: Missing sessionId or content"

----------------------------------------------------------------------------
\* Further properties of the chat page.

\* Ingestion n has started and not ended.
Ingesting(n) == ings[n].pc \in {"requesting", "streaming"}

\* C25: on the mounted chat page uploadingFile is true exactly while an
\* ingestion is under way, from its start until it ends by a failed request,
\* a complete event, an error event or a stream error; so after a stream has
\* ended the upload controls are not left disabled, and at most one progress
\* stream is open at a time.
C25_UploadingWhileIngesting ==
  /\ mounted => (uploadingFile <=> \E n \in 1..MaxIngestions : Ingesting(n))
  /\ \A n \in 1..MaxIngestions :
       (mounted /\ ings[n].end # "none" /\ n = nIngs) => ~uploadingFile
  /\ Cardinality({n \in 1..MaxIngestions : Ingesting(n)}) <= 1
  /\ Cardinality({n \in 1..MaxIngestions : ings[n].es = "open"}) <= 1

\* The first ingestion ended with a stream error, the controls were enabled
\* again, and a second ingestion has its stream open.
C25_Witness ==
  /\ mounted
  /\ nIngs = 2
  /\ ings[1].end = "stream_error"
  /\ ings[2].es = "open"
  /\ uploadingFile

\* The texts ingestion n writes into its own status message before it ends.
OwnTexts(n) ==
  {UploadingText(ings[n].kind, ings[n].name), ProcessingText(ings[n].kind, ings[n].name)}
    \cup {PhaseText(ings[n].kind, ings[n].name, ev.processing_phase) : ev \in StreamEvents}

\* The stream of ingestion n handles an event (onmessage or onerror) in this step.
EventHandled(n) ==
  /\ ings[n].es = "open"
  /\ Len(ings'[n].queue) < Len(ings[n].queue) \/ ings'[n].es = "closed"

\* C26: a progress or terminal event of an ingestion rewrites only the status
\* message that was added when that ingestion started: it never changes the
\* number of status messages and never overwrites a status message that
\* belongs to something else, in every interleaving with Reset.
C26_EventsRewriteOwnMessage ==
  [][\A n \in 1..MaxIngestions :
       EventHandled(n) =>
         /\ Len(statusMessages') = Len(statusMessages)
         /\ \A i \in 1..Len(statusMessages) :
              statusMessages'[i] # statusMessages[i] =>
                /\ i = Len(statusMessages)
                /\ statusMessages[i].message \in OwnTexts(n)]_vars

\* C27: after Reset has created a new session, the page's document list
\* holds only documents of the page's current session, and an answer is
\* appended to the message list only for a query sent in the current session.
C27_OnlyCurrentSessionItems ==
  /\ [](\A i \in 1..Len(documents) :
          \E n \in 1..MaxIngestions :
            ings[n].doc = documents[i].id /\ ings[n].sid = sessionId)
  /\ [][(sendPc = "waiting" /\ sendPc' = "settled" /\ messages' # messages)
          => reqSessionId = sessionId]_vars

----------------------------------------------------------------------------
\* Properties of the index page.

\* The sessions the server has deleted.
Deleted == SessionIds \ serverSessions

\* C28: whenever the delete confirmation modal is shown a session to delete
\* is selected, in every interleaving of handleDeleteSession, confirmDelete
\* (also while its request is in flight) and cancelDelete; and a server
\* delete is issued only by confirmDelete, for the selected session.
C28_ModalHasSelection ==
  /\ [](showDeleteModal => sessionToDelete # NoSession)
  /\ [][Len(deleting') > Len(deleting) =>
          /\ showDeleteModal
          /\ deleting'[Len(deleting')].session = sessionToDelete]_vars

\* C29: a session deleted through confirmDelete is absent from the session
\* list and from every folder, the stored active session id is not its id,
\* and it does not reappear later, also when a loadSessions request that was
\* started before the deletion completes after it.
C29_DeletedStaysGone ==
  \A id \in Deleted :
    /\ ~includes(sessions, id)
    /\ \A i \in 1..Len(folders) : ~includes(folders[i].sessionIds, id)
    /\ storedSessionId # id

\* C30: when the server delete of a confirmDelete call fails, the call leaves
\* the session list, the folders and the stored active session id as they
\* were, the modal is closed and sessionToDelete is cleared.
C30_FailedDeleteChangesNothing ==
  [][(Len(deleting') < Len(deleting) /\ serverSessions' = serverSessions) =>
       /\ sessions' = sessions
       /\ folders' = folders
       /\ storedSessionId' = storedSessionId
       /\ ~showDeleteModal'
       /\ sessionToDelete' = NoSession]_vars

----------------------------------------------------------------------------
\* Properties of the folders.

\* C31: a folder change made while a session deletion is in flight is kept
\* when confirmDelete completes: the folders saved after a successful delete
\* are the current folders with the deleted session removed.
C31_FolderChangesKept ==
  [][(Len(deleting') < Len(deleting) /\ serverSessions' # serverSessions) =>
       \E id \in serverSessions \ serverSessions' :
         folders' = removeFromFolder(folders, id)]_vars

\* The places (folder, position) at which a session id occurs.
Places(id) ==
  {<<i, k>> \in (1..Len(folders)) \X (1..FolderSessions + 1) :
     k <= Len(folders[i].sessionIds) /\ folders[i].sessionIds[k] = id}

C34_DeleteFolderKeepsSessions ==
  [][deleteFolder =>
       \E i \in 1..Len(folders) :
         /\ folders' = SubSeq(folders, 1, i - 1) \o SubSeq(folders, i + 1, Len(folders))
         /\ sessions' = sessions
         /\ serverSessions' = serverSessions
         /\ deleting' = deleting
         /\ listPc' = listPc
         /\ \A k \in 1..Len(folders[i].sessionIds) :
              folders[i].sessionIds[k] \in listed =>
                folders[i].sessionIds[k] \in standaloneSessions']_vars

\* One of two folders was deleted: its two sessions are standalone again.
C34_Witness ==
  /\ nFolders = 2
  /\ Len(folders) = 1
  /\ Cardinality(standaloneSessions) = FolderSessions - 2

\* ---------------------------------------------------------------------------
\* Creating sessions from the session list: any of the titled sessions may
\* exist and be listed when the name modal is used.
\* ---------------------------------------------------------------------------

InitCreate ==
  /\ sessPresent = TRUE
  /\ serverDocs = <<>>
  /\ serverMessages = <<>>
  /\ emitted = 0
  /\ BackendIdle
  /\ PollIdle
  /\ BridgeIdle
  /\ PageIdle
  /\ SendIdle
  /\ CreateIdle
  /\ serverSessions \in SUBSET {SessionIdOf(i) : i \in 1..TitledSessions}
  /\ sessions = SelectSeq([i \in 1..TitledSessions |-> SessionIdOf(TitledSessions + 1 - i)],
                          LAMBDA id : id \in serverSessions)
  /\ storedSessionId = ""
  /\ IndexLoaded

NextCreate ==
  \/ handleCreateNewChat
  \/ handleSessionNameChange
  \/ handleCloseModal
  \/ handleCreateWithName
  \/ handleCreateWithNameSettled

SpecCreate == InitCreate /\ [][NextCreate]_vars

SameIgnoringCase(s, t) ==
  /\ Len(s) = Len(t)
  /\ \A i \in 1..Len(s) : LowerChar(s[i]) = LowerChar(t[i])

\* A session the client knows has this title, ignoring case.
KnownTitle(t) == \E i \in 1..Len(sessions) : SameIgnoringCase(SessionTitle(sessions[i]), t)

\* The trimmed entered name, or "New Chat" when nothing but blanks was entered.
Base(name) ==
  LET inner == {i \in 1..Len(name) : name[i] # " "}
  IN IF inner = {} THEN DefaultTitle
     ELSE LET lo == CHOOSE i \in inner : \A j \in inner : i <= j
              hi == CHOOSE i \in inner : \A j \in inner : j <= i
          IN [k \in 1..(hi - lo + 1) |-> name[lo + k - 1]]

\* C35: the title handleCreateWithName sends is the base title when no known
\* session has it ignoring case, and otherwise base(n) for the smallest n >= 1
\* whose base(n) no known session has; such an n is at most the number of known
\* sessions, so the search ends, and the title sent is no known session's title.
C35_TitleIsUnique ==
  [][handleCreateWithName =>
       LET base == Base(newSessionName)
       IN /\ ~KnownTitle(sentTitle')
          /\ IF ~KnownTitle(base) THEN sentTitle' = base
             ELSE \E n \in 1..Len(sessions) :
                    /\ sentTitle' = numbered(base, n)
                    /\ \A m \in 1..(n - 1) : KnownTitle(numbered(base, m))]_vars

\* The entered name, trimmed, and its first two numbered forms are taken in
\* another case: the title sent carries the number 3.
C35_Witness ==
  /\ createPc = "sent"
  /\ newSessionName = <<" ", "a", " ">>
  /\ sentTitle = <<"a", "(", "3", ")">>

\* ---------------------------------------------------------------------------
\* The chat page from its mount: initSession runs first, against a store
\* that holds an id or none and a server that has the stored session or not.
\* ---------------------------------------------------------------------------

InitStart ==
  /\ IndexIdle
  /\ CreateIdle
  /\ serverSessions \in {{PageSession}, {}}
  /\ storedSessionId \in {"", PageSession}
  /\ sessPresent = TRUE
  /\ serverDocs = <<>>
  /\ serverMessages = <<>>
  /\ emitted = 0
  /\ BackendIdle
  /\ PollIdle
  /\ BridgeIdle
  /\ sessionId = ""
  /\ statusMessages = <<>>
  /\ documents = <<>>
  /\ uploadingFile = FALSE
  /\ ings = [n \in 1..MaxIngestions |-> NoIngestion]
  /\ nIngs = 0
  /\ loads = <<>>
  /\ SendIdle
  /\ mounted = TRUE
  /\ resetsInFlight = 0
  /\ nResets = 0
  /\ initPc = InitPc("start", "")

NextStart ==
  \/ initSession
  \/ initSessionGetSettled
  \/ initSessionCreateSettled
  \/ NextPage

SpecStart == InitStart /\ [][NextStart]_vars

\* A page that holds a session id has that id in the store.
StoredIsPageSession == mounted /\ sessionId # "" => storedSessionId = sessionId

\* C36: initialisation restores the stored session when the server still
\* has it, and removes the stored id and creates a session only when the
\* stored session no longer exists (or creates one when no id is stored);
\* and whenever the page holds a session id, the stored id equals it.
C36_RestoreOrCreate ==
  /\ [][(initPc.pc = "getting" /\ initPc' # initPc) =>
          IF initPc.saved \in serverSessions
            THEN /\ initPc'.pc = "done"
                 /\ mounted => sessionId' = initPc.saved
                 /\ storedSessionId' = storedSessionId
            ELSE /\ initPc'.pc = "creating"
                 /\ storedSessionId' = ""]_vars
  /\ [][(initPc.pc = "start" /\ initPc'.pc = "creating") => storedSessionId = ""]_vars
  /\ [][(storedSessionId # "" /\ storedSessionId' = "") => storedSessionId \notin serverSessions]_vars
  /\ []StoredIsPageSession

====
